---- MODULE Spec2Model ----
(***************************************************************************)
(* Event-registration system over a spreadsheet row store.                 *)
(*                                                                         *)
(* A string is a sequence of one-character strings, so that trim,          *)
(* toLowerCase, startsWith and the two validation patterns are computed    *)
(* character by character as the code computes them.  A row is a sequence  *)
(* of cells (strings); a sheet is a sequence of rows; the spreadsheet is a *)
(* function from sheet titles to sheets.  Code indices are 0-based: the    *)
(* operators below take the code's 0-based indices and add one when they   *)
(* index a sequence.                                                       *)
(***************************************************************************)
EXTENDS Integers, Sequences, FiniteSets, TLC

VARIABLES
    sheets,      \* the spreadsheet: sheet title -> rows
    files,       \* the file host: number of image files committed so far
    clock,       \* Date.now(), in ticks
    last,        \* the last request handled and its response
    registered,  \* history: the register calls that returned success
    toggled,     \* history: the status last set by a successful setEventStatus
    inflight,    \* the requests being handled, each between two store calls
    sessions     \* the sessions issued by the logins so far

vars == <<sheets, files, clock, last, registered, toggled, inflight, sessions>>

---------------------------------------------------------------------------
(* Bounds of the model.                                                    *)

MaxRows == 8
MaxCompanies == 2
MaxFiles == 1
MaxRegistered == 2

---------------------------------------------------------------------------
(* String primitives (JavaScript String methods used by the code).         *)

UpperCaseLetters ==
    <<"A","B","C","D","E","F","G","H","I","J","K","L","M",
      "N","O","P","Q","R","S","T","U","V","W","X","Y","Z">>

LowerCaseLetters ==
    <<"a","b","c","d","e","f","g","h","i","j","k","l","m",
      "n","o","p","q","r","s","t","u","v","w","x","y","z">>

Digits == {"0","1","2","3","4","5","6","7","8","9"}

WhiteSpace == {" ", "\t", "\n", "\r"}

toLowerCaseChar(c) ==
    IF \E i \in 1..26 : UpperCaseLetters[i] = c
    THEN LowerCaseLetters[CHOOSE i \in 1..26 : UpperCaseLetters[i] = c]
    ELSE c

toLowerCase(s) == [i \in 1..Len(s) |-> toLowerCaseChar(s[i])]

RECURSIVE trimStart(_)
trimStart(s) ==
    IF s # <<>> /\ Head(s) \in WhiteSpace THEN trimStart(Tail(s)) ELSE s

RECURSIVE trimEnd(_)
trimEnd(s) ==
    IF s # <<>> /\ s[Len(s)] \in WhiteSpace
    THEN trimEnd(SubSeq(s, 1, Len(s) - 1))
    ELSE s

trim(s) == trimEnd(trimStart(s))

startsWith(s, prefix) ==
    Len(s) >= Len(prefix) /\ SubSeq(s, 1, Len(prefix)) = prefix

\* Printable ASCII, code 32 (space) to code 126 (~); "GRAVE" stands for the
\* grave accent, code 96.
Ascii ==
    <<" ","!","\"","#","$","%","&","'","(",")","*","+",",","-",".","/",
      "0","1","2","3","4","5","6","7","8","9",":",";","<","=",">","?",
      "@","A","B","C","D","E","F","G","H","I","J","K","L","M","N","O",
      "P","Q","R","S","T","U","V","W","X","Y","Z","[","\\","]","^","_",
      "GRAVE","a","b","c","d","e","f","g","h","i","j","k","l","m","n","o",
      "p","q","r","s","t","u","v","w","x","y","z","{","|","}","~">>

HexDigits ==
    <<"0","1","2","3","4","5","6","7","8","9","A","B","C","D","E","F">>

IsHex(c) == \E i \in 1..16 : HexDigits[i] = c \/ toLowerCaseChar(HexDigits[i]) = c

HexValue(c) ==
    (CHOOSE i \in 1..16 : HexDigits[i] = c \/ toLowerCaseChar(HexDigits[i]) = c) - 1

\* decodeURIComponent: [ok, value]; ok = FALSE is the URIError of a malformed
\* escape.  Escapes are decoded within printable ASCII, the alphabet of the
\* inputs.
RECURSIVE decodeURIComponent(_)
decodeURIComponent(s) ==
    IF s = <<>> THEN [ok |-> TRUE, value |-> <<>>]
    ELSE IF Head(s) # "%"
    THEN LET rest == decodeURIComponent(Tail(s))
         IN  [ok |-> rest.ok, value |-> <<Head(s)>> \o rest.value]
    ELSE IF Len(s) < 3 \/ ~IsHex(s[2]) \/ ~IsHex(s[3])
    THEN [ok |-> FALSE, value |-> <<>>]
    ELSE LET code == 16 * HexValue(s[2]) + HexValue(s[3])
             rest == decodeURIComponent(SubSeq(s, 4, Len(s)))
         IN  IF code < 32 \/ code > 126
             THEN [ok |-> FALSE, value |-> <<>>]
             ELSE [ok |-> rest.ok, value |-> <<Ascii[code - 31]>> \o rest.value]

\* /^[^\s@]+@[^\s@]+\.[^\s@]+$/
emailRegex(s) ==
    /\ \A i \in 1..Len(s) : s[i] \notin WhiteSpace
    /\ Cardinality({i \in 1..Len(s) : s[i] = "@"}) = 1
    /\ LET at == CHOOSE i \in 1..Len(s) : s[i] = "@"
       IN  /\ at > 1
           /\ \E dot \in (at + 2)..(Len(s) - 1) : s[dot] = "."

\* /^\d{10,15}$/
phoneRegex(s) ==
    /\ Len(s) >= 10
    /\ Len(s) <= 15
    /\ \A i \in 1..Len(s) : s[i] \in Digits

---------------------------------------------------------------------------
(* String constants of the code.                                           *)

COMPANIES == <<"c","o","m","p","a","n","i","e","s">>
Enabled == <<"e","n","a","b","l","e","d">>
Disabled == <<"d","i","s","a","b","l","e","d">>
UNDEFINED == <<"u","n","d","e","f","i","n","e","d">>
ID_PREFIX == <<"I","D">>

H_Name == <<"N","a","m","e">>
H_Phone == <<"P","h","o","n","e">>
H_Email == <<"E","m","a","i","l">>
H_Gender == <<"G","e","n","d","e","r">>
H_College == <<"C","o","l","l","e","g","e">>
H_Status == <<"S","t","a","t","u","s">>
H_NationalID == <<"N","a","t","i","o","n","a","l"," ","I","D">>
H_RegistrationDate ==
    <<"R","e","g","i","s","t","r","a","t","i","o","n"," ","D","a","t","e">>
H_Image == <<"I","m","a","g","e">>
H_EventDescription ==
    <<"E","v","e","n","t","D","e","s","c","r","i","p","t","i","o","n">>
H_EventDate == <<"E","v","e","n","t","D","a","t","e">>
H_EventStatus == <<"E","v","e","n","t","S","t","a","t","u","s">>

EventHeaders ==
    <<H_Name, H_Phone, H_Email, H_Gender, H_College, H_Status, H_NationalID,
      H_RegistrationDate, H_Image, H_EventDescription, H_EventDate,
      H_EventStatus>>

CompaniesHeader ==
    << <<"I","D">>, H_Name, <<"U","s","e","r","n","a","m","e">>,
       <<"P","a","s","s","w","o","r","d">>, H_Image, H_Status >>

---------------------------------------------------------------------------
(* Array helpers (0-based, as in the code).                                *)

Min(S) == CHOOSE x \in S : \A y \in S : x <= y

\* row[k]; undefined and '' are both the empty string here: every use in the
\* code either tests the cell for truthiness or compares it with a non-empty
\* string, and the two agree on both.
Cell(row, k) == IF k >= 0 /\ k < Len(row) THEN row[k + 1] ELSE <<>>

\* arr.indexOf(v) / arr.findIndex(h => h === v)
indexOf(arr, v) ==
    IF \E i \in 1..Len(arr) : arr[i] = v
    THEN Min({i \in 1..Len(arr) : arr[i] = v}) - 1
    ELSE -1

\* arr.slice(from, to)
slice(arr, from, to) == SubSeq(arr, from + 1, to)

---------------------------------------------------------------------------
(* Row store client (sheets.ts over the spreadsheet service).              *)

\* The service does not store trailing empty cells: values.get returns each
\* row up to its last non-empty cell.
RECURSIVE TrimRow(_)
TrimRow(row) ==
    IF row # <<>> /\ row[Len(row)] = <<>>
    THEN TrimRow(SubSeq(row, 1, Len(row) - 1))
    ELSE row

SheetExists(db, sheetName) == sheetName \in DOMAIN db

\* valueInputOption: 'USER_ENTERED': the service parses a written cell as
\* if it were typed into the sheet, and values.get returns the formatted
\* value.  A cell of decimal digits becomes a number and is read back
\* without its leading zeros; the other cells written here are kept as text.
RECURSIVE stripLeadingZeros(_)
stripLeadingZeros(cell) ==
    IF Len(cell) > 1 /\ cell[1] = "0"
    THEN stripLeadingZeros(SubSeq(cell, 2, Len(cell)))
    ELSE cell

userEntered(cell) ==
    IF cell # <<>> /\ \A k \in 1..Len(cell) : cell[k] \in Digits
    THEN stripLeadingZeros(cell)
    ELSE cell

userEnteredRow(row) == [k \in 1..Len(row) |-> userEntered(row[k])]

\* values.get on range = sheetName; a missing sheet throws.
getSheetData(db, sheetName) == db[sheetName]

\* values.append: the row is written after the last populated row of the data
\* that the range lies in.  The rows of a sheet are contiguous, so whatever
\* row the range names, the new row becomes the last row of the sheet.
appendValues(rows, values) ==
    rows \o SelectSeq([i \in 1..Len(values) |->
                           TrimRow(userEnteredRow(values[i]))],
                      LAMBDA r : r # <<>>)

appendToSheet(db, sheetName, values) ==
    [db EXCEPT ![sheetName] = appendValues(@, values)]

\* batchUpdate addSheet; an existing title is rejected by the service.
createSheet(db, sheetName) ==
    IF SheetExists(db, sheetName)
    THEN [ok |-> FALSE, db |-> db]
    ELSE [ok |-> TRUE, db |-> (sheetName :> <<>>) @@ db]

\* values.update at A{rowIndex + 1}: the cells of values overwrite the row
\* from column A; cells to the right of them keep their value.
updateValues(rows, rowIndex, values) ==
    LET old == IF rowIndex < Len(rows) THEN rows[rowIndex + 1] ELSE <<>>
        width == IF Len(old) > Len(values) THEN Len(old) ELSE Len(values)
        new == TrimRow([k \in 1..width |->
                   IF k <= Len(values) THEN userEntered(values[k])
                   ELSE old[k]])
        height == IF rowIndex + 1 > Len(rows) THEN rowIndex + 1 ELSE Len(rows)
    IN  [i \in 1..height |->
            IF i = rowIndex + 1 THEN new
            ELSE IF i <= Len(rows) THEN rows[i] ELSE <<>>]

updateRow(db, sheetName, rowIndex, values) ==
    [db EXCEPT ![sheetName] = updateValues(@, rowIndex, values)]

\* getSpreadsheet, find the sheet titled oldName, updateSheetProperties; a
\* title already in use is rejected by the service.
renameSheet(db, oldName, newName) ==
    IF ~SheetExists(db, oldName) \/ SheetExists(db, newName)
    THEN [ok |-> FALSE, db |-> db]
    ELSE [ok |-> TRUE,
          db |-> [t \in (DOMAIN db \ {oldName}) \cup {newName} |->
                     IF t = newName THEN db[oldName] ELSE db[t]]]

---------------------------------------------------------------------------
(* Table convention layer (sheets.ts).                                     *)

\* First row whose first cell is exactly tableName, else -1.
ExactMatchIndex(data, tableName) ==
    LET S == {i \in 0..(Len(data) - 1) :
                 Len(data[i + 1]) > 0 /\ data[i + 1][1] = tableName}
    IN  IF S = {} THEN -1 ELSE Min(S)

\* First row whose first cell, trimmed and lower-cased, is the normalized
\* table name, else -1.
NormalizedMatchIndex(data, tableName) ==
    LET normalizedTableName == toLowerCase(trim(tableName))
        S == {i \in 0..(Len(data) - 1) :
                 /\ Len(data[i + 1]) > 0
                 /\ data[i + 1][1] # <<>>
                 /\ toLowerCase(trim(data[i + 1][1])) = normalizedTableName}
    IN  IF S = {} THEN -1 ELSE Min(S)

tableStartIndex(data, tableName) ==
    IF ExactMatchIndex(data, tableName) # -1
    THEN ExactMatchIndex(data, tableName)
    ELSE NormalizedMatchIndex(data, tableName)

\* Next row after start with exactly one, non-empty, cell; else data.length.
tableEndIndex(data, start) ==
    LET S == {i \in (start + 1)..(Len(data) - 1) :
                 Len(data[i + 1]) = 1 /\ data[i + 1][1] # <<>>}
    IN  IF S = {} THEN Len(data) ELSE Min(S)

getTableData(db, sheetName, tableName) ==
    IF ~SheetExists(db, sheetName) \/ getSheetData(db, sheetName) = <<>>
    THEN [ok |-> FALSE, rows |-> <<>>]
    ELSE LET data == getSheetData(db, sheetName)
             start == tableStartIndex(data, tableName)
         IN  IF start = -1
             THEN [ok |-> FALSE, rows |-> <<>>]
             ELSE [ok |-> TRUE,
                   rows |-> slice(data, start + 1, tableEndIndex(data, start))]

addToTable(db, sheetName, tableName, rowData) ==
    IF ~SheetExists(db, sheetName) \/ getSheetData(db, sheetName) = <<>>
    THEN [ok |-> FALSE, db |-> db]
    ELSE LET data == getSheetData(db, sheetName)
             start == tableStartIndex(data, tableName)
         IN  IF start = -1
             THEN [ok |-> FALSE, db |-> db]
             ELSE \* range = A{tableEndIndex + 1}; values.append
                  [ok |-> TRUE,
                   db |-> [db EXCEPT ![sheetName] =
                              appendValues(@, <<rowData>>)]]

createTable(db, sheetName, tableName, headers) ==
    IF ~SheetExists(db, sheetName)
    THEN [ok |-> FALSE, db |-> db]
    ELSE LET data == getSheetData(db, sheetName)
             tableExists == \E i \in 1..Len(data) :
                                Len(data[i]) > 0 /\ data[i][1] = tableName
         IN  IF tableExists
             THEN [ok |-> FALSE, db |-> db]
             ELSE [ok |-> TRUE,
                   db |-> appendToSheet(
                              appendToSheet(db, sheetName, <<<<tableName>>>>),
                              sheetName, <<headers>>)]

\* getSpreadsheet, find the sheet by title, first row whose first cell is
\* exactly tableName (no case-insensitive pass), deleteDimension of the rows
\* from it up to the next row with one non-empty cell.
deleteTable(db, sheetName, tableName) ==
    IF ~SheetExists(db, sheetName)
    THEN [ok |-> FALSE, db |-> db]
    ELSE LET data == getSheetData(db, sheetName)
             start == ExactMatchIndex(data, tableName)
         IN  IF start = -1
             THEN [ok |-> FALSE, db |-> db]
             ELSE [ok |-> TRUE,
                   db |-> [db EXCEPT ![sheetName] =
                              slice(data, 0, start)
                              \o slice(data, tableEndIndex(data, start),
                                       Len(data))]]

---------------------------------------------------------------------------
(* Responses.  A handler answers with an HTTP status and an error text;    *)
(* ErrorKind classifies the answer in the error taxonomy.                  *)

Response(status, error) == [status |-> status, error |-> error]

OK == Response(200, "")

ErrorKind(resp) ==
    CASE resp.status = 200 -> "OK"
      [] resp.status = 401 -> "Unauthorized"
      [] resp.status = 403 -> "Forbidden"
      [] resp.status = 404 -> "NotFound"
      [] resp.status = 500 -> "StoreUnavailable"
      [] resp.status = 400 /\ resp.error \in
             {"You are already registered for this event",
              "Username already exists"} -> "Conflict"
      [] OTHER -> "InvalidArgument"

\* getServerSession: no session, the admin session, or a company session
\* carrying the company name it was issued for.
NoSession == [present |-> FALSE, type |-> "", name |-> <<>>]
AdminSession == [present |-> TRUE, type |-> "admin", name |-> <<"A","d","m","i","n">>]
CompanySession(companyName) ==
    [present |-> TRUE, type |-> "company", name |-> companyName]

\* The check that lets every signed-in caller act for every company.
mayActForAnyCompany(session, companyName) == session.present

\* session.user.type === 'admin' || session.user.name === companyName
mayActFor(session, companyName) ==
    session.type = "admin" \/ session.name = companyName

\* The ascending sequence of a finite set of integers.
RECURSIVE Ascending(_)
Ascending(S) ==
    IF S = {} THEN <<>> ELSE <<Min(S)>> \o Ascending(S \ {Min(S)})

---------------------------------------------------------------------------
(* GET /api/events: the events of a company.                               *)

\* The row test of the registration count (events route).
isSettingsRowOfCount(row, imageIndex, descriptionIndex, dateIndex, statusIndex) ==
    \A index \in 0..(Len(row) - 1) :
        LET cell == row[index + 1]
        IN  \/ (index = imageIndex /\ cell # <<>>)
            \/ (index = descriptionIndex /\ cell # <<>>)
            \/ (index = dateIndex /\ cell # <<>>)
            \/ (index = statusIndex /\ cell # <<>>)
            \/ cell = <<>>

registrationCount(eventData) ==
    LET headers == IF Len(eventData) > 0 THEN eventData[1] ELSE <<>>
        imageIndex == indexOf(headers, H_Image)
        descriptionIndex == indexOf(headers, H_EventDescription)
        dateIndex == indexOf(headers, H_EventDate)
        statusIndex == indexOf(headers, H_EventStatus)
    IN  Cardinality({i \in 1..(Len(eventData) - 1) :
            ~isSettingsRowOfCount(eventData[i + 1], imageIndex,
                                  descriptionIndex, dateIndex, statusIndex)})

\* The directory row of a company, by exact name; <<>> when there is none.
findCompanyExact(db, companyName) ==
    LET companies == slice(getSheetData(db, COMPANIES), 1,
                           Len(getSheetData(db, COMPANIES)))
        S == {i \in 1..Len(companies) : Cell(companies[i], 1) = companyName}
    IN  IF S = {} THEN <<>> ELSE companies[Min(S)]

companyStatusOf(company) ==
    IF Cell(company, 5) # <<>> THEN Cell(company, 5) ELSE Enabled

\* The event record built from the marker row at index i.
eventAt(db, companyName, data, i, company) ==
    LET eventName == data[i + 1][1]
        headers == IF i + 1 < Len(data) THEN data[i + 2] ELSE <<>>
        settings == IF i + 2 < Len(data) THEN data[i + 3] ELSE <<>>
        imageIndex == indexOf(headers, H_Image)
        descriptionIndex == indexOf(headers, H_EventDescription)
        dateIndex == indexOf(headers, H_EventDate)
        statusIndex == indexOf(headers, H_EventStatus)
        eventData == getTableData(db, companyName, eventName)
    IN  [id |-> eventName,
         name |-> eventName,
         image |-> Cell(settings, imageIndex),
         description |-> Cell(settings, descriptionIndex),
         date |-> Cell(settings, dateIndex),
         status |-> IF Cell(settings, statusIndex) # <<>>
                    THEN Cell(settings, statusIndex) ELSE Enabled,
         registrations |-> IF eventData.ok
                           THEN registrationCount(eventData.rows) ELSE 0,
         companyStatus |-> IF company # <<>>
                           THEN companyStatusOf(company) ELSE Enabled]

\* Rows with exactly one, non-empty, cell that does not start with "ID".
eventRowIndices(data) ==
    {i \in 0..(Len(data) - 1) :
        /\ Len(data[i + 1]) = 1
        /\ data[i + 1][1] # <<>>
        /\ ~startsWith(data[i + 1][1], ID_PREFIX)}

listEvents(db, rawCompanyName) ==
    IF rawCompanyName = <<>>
    THEN [resp |-> Response(400, "Company name is required"), events |-> <<>>]
    ELSE IF ~decodeURIComponent(rawCompanyName).ok \/ ~SheetExists(db, COMPANIES)
    THEN [resp |-> Response(500, "Failed to get events"), events |-> <<>>]
    ELSE LET companyName == decodeURIComponent(rawCompanyName).value
             company == findCompanyExact(db, companyName)
         IN  IF company # <<>> /\ companyStatusOf(company) = Disabled
             THEN [resp |-> Response(403, "Company is disabled"),
                   events |-> <<>>]
             ELSE IF ~SheetExists(db, companyName)
             THEN [resp |-> Response(500, "Failed to get events"),
                   events |-> <<>>]
             ELSE LET data == getSheetData(db, companyName)
                      idx == Ascending(eventRowIndices(data))
                  IN  [resp |-> OK,
                       events |-> [k \in 1..Len(idx) |->
                           eventAt(db, companyName, data, idx[k], company)]]

---------------------------------------------------------------------------
(* POST /api/events: create an event.                                      *)

\* The URL that uploadImage returns for a committed file.
ImageUrl == <<"u","r","l">>

settingsRowOf(headers, imageUrl, eventDescription, eventDate) ==
    LET imageIndex == indexOf(headers, H_Image)
        descriptionIndex == indexOf(headers, H_EventDescription)
        dateIndex == indexOf(headers, H_EventDate)
        statusIndex == indexOf(headers, H_EventStatus)
    IN  [k \in 1..Len(headers) |->
            IF k - 1 = statusIndex THEN Enabled
            ELSE IF k - 1 = dateIndex THEN eventDate
            ELSE IF k - 1 = descriptionIndex THEN eventDescription
            ELSE IF k - 1 = imageIndex /\ imageUrl # <<>> THEN imageUrl
            ELSE <<>>]

\* [resp, db, files]: the answer, the spreadsheet and the file host after
\* the call.  An absent body field and an empty one are both <<>>.
createEvent(db, fs, session, companyName, eventName, eventDescription, eventDate, image) ==
    IF ~session.present
    THEN [resp |-> Response(401, "Unauthorized"), db |-> db, files |-> fs]
    ELSE IF companyName = <<>> \/ eventName = <<>> \/ eventDescription = <<>>
            \/ eventDate = <<>>
    THEN [resp |-> Response(400, "Company name, event name, description and date are required"),
          db |-> db, files |-> fs]
    ELSE IF ~mayActFor(session, companyName)
    THEN [resp |-> Response(403, "Unauthorized to create events for this company"),
          db |-> db, files |-> fs]
    ELSE LET uploaded == IF image # <<>> THEN fs + 1 ELSE fs
             imageUrl == IF image # <<>> THEN ImageUrl ELSE <<>>
             created == createTable(db, companyName, eventName, EventHeaders)
             settingsRow == settingsRowOf(EventHeaders, imageUrl,
                                          eventDescription, eventDate)
             added == addToTable(created.db, companyName, eventName, settingsRow)
         IN  IF ~created.ok
             THEN [resp |-> Response(500, "Failed to create event"),
                   db |-> db, files |-> uploaded]
             ELSE IF ~added.ok
             THEN [resp |-> Response(500, "Failed to create event"),
                   db |-> created.db, files |-> uploaded]
             ELSE [resp |-> OK, db |-> added.db, files |-> uploaded]

---------------------------------------------------------------------------
(* PUT /api/events: enable or disable an event.                            *)

\* First row with exactly one cell, equal to event; else -1.
eventIndexOf(data, event) ==
    LET S == {i \in 0..(Len(data) - 1) :
                 Len(data[i + 1]) = 1 /\ data[i + 1][1] = event}
    IN  IF S = {} THEN -1 ELSE Min(S)

\* firstDataRow[statusIndex] = status; assigning past the end of the array
\* leaves holes, which the service writes as nothing.
setCell(row, k, v) ==
    [j \in 1..(IF k + 1 > Len(row) THEN k + 1 ELSE Len(row)) |->
        IF j = k + 1 THEN v ELSE IF j <= Len(row) THEN row[j] ELSE <<>>]

setEventStatus(db, session, company, event, status) ==
    IF ~session.present
    THEN [resp |-> Response(401, "Unauthorized"), db |-> db]
    ELSE IF company = <<>> \/ event = <<>> \/ status = <<>>
    THEN [resp |-> Response(400, "Company name, event name, and status are required"),
          db |-> db]
    ELSE IF status # Enabled /\ status # Disabled
    THEN [resp |-> Response(400, "Status must be either enabled or disabled"),
          db |-> db]
    ELSE IF ~mayActFor(session, company)
    THEN [resp |-> Response(403, "Unauthorized to update events for this company"),
          db |-> db]
    ELSE IF ~SheetExists(db, company)
    THEN [resp |-> Response(500, "Failed to update event"), db |-> db]
    ELSE LET data == getSheetData(db, company)
             eventIndex == eventIndexOf(data, event)
         IN  IF eventIndex = -1
             THEN [resp |-> Response(404, "Event not found"), db |-> db]
             ELSE IF eventIndex + 1 >= Len(data)
             THEN [resp |-> Response(500, "Event headers not found"), db |-> db]
             ELSE LET headersRow == data[eventIndex + 2]
                      statusIndex == indexOf(headersRow, H_EventStatus)
                      hasFirst == eventIndex + 2 < Len(data)
                      firstDataRow == IF hasFirst THEN data[eventIndex + 3]
                                      ELSE <<>>
                  IN  IF statusIndex = -1
                      THEN LET db1 == updateRow(db, company, eventIndex + 1,
                                          Append(headersRow, H_EventStatus))
                           IN  [resp |-> OK,
                                db |-> IF hasFirst
                                       THEN updateRow(db1, company, eventIndex + 2,
                                                Append(firstDataRow, status))
                                       ELSE db1]
                      ELSE [resp |-> OK,
                            db |-> IF hasFirst
                                   THEN updateRow(db, company, eventIndex + 2,
                                            setCell(firstDataRow, statusIndex, status))
                                   ELSE db]

---------------------------------------------------------------------------
(* GET /api/events/registrations: the registrations of an event.          *)

\* The row test of the registrations route without its last disjunct.
isSettingsRowOfListNoEmptyCells(row, imageIndex, descriptionIndex, dateIndex, statusIndex) ==
    \A index \in 0..(Len(row) - 1) :
        LET cell == row[index + 1]
        IN  \/ (imageIndex # -1 /\ index = imageIndex /\ cell # <<>>)
            \/ (descriptionIndex # -1 /\ index = descriptionIndex /\ cell # <<>>)
            \/ (dateIndex # -1 /\ index = dateIndex /\ cell # <<>>)
            \/ (statusIndex # -1 /\ index = statusIndex /\ cell # <<>>)

\* The row test of the registrations route.
isSettingsRowOfList(row, imageIndex, descriptionIndex, dateIndex, statusIndex) ==
    \A index \in 0..(Len(row) - 1) :
        LET cell == row[index + 1]
        IN  \/ (imageIndex # -1 /\ index = imageIndex /\ cell # <<>>)
            \/ (descriptionIndex # -1 /\ index = descriptionIndex /\ cell # <<>>)
            \/ (dateIndex # -1 /\ index = dateIndex /\ cell # <<>>)
            \/ (statusIndex # -1 /\ index = statusIndex /\ cell # <<>>)
            \/ cell = <<>>

\* The column indices left out of the answer.
excludeIndicesOf(session, originalHeaders) ==
    LET settingsIndices ==
            {indexOf(originalHeaders, H_Image),
             indexOf(originalHeaders, H_EventDescription),
             indexOf(originalHeaders, H_EventDate),
             indexOf(originalHeaders, H_EventStatus)} \ {-1}
        nationalIdIndex == indexOf(originalHeaders, H_NationalID)
    IN  IF session.type = "admin"
        THEN settingsIndices
        ELSE IF nationalIdIndex # -1
             THEN settingsIndices \cup {nationalIdIndex}
             ELSE settingsIndices

\* The registration object of a row: header -> cell, for the kept columns
\* (a later column of the same header overwrites an earlier one).
registrationOf(row, originalHeaders, excludeIndices) ==
    LET kept == {i \in 0..(Len(originalHeaders) - 1) : i \notin excludeIndices}
    IN  [h \in {originalHeaders[i + 1] : i \in kept} |->
            Cell(row, CHOOSE i \in kept :
                          /\ originalHeaders[i + 1] = h
                          /\ \A j \in kept : originalHeaders[j + 1] = h => j <= i)]

NoBody == [headers |-> <<>>, registrations |-> <<>>]

listRegistrations(db, session, companyName, eventName) ==
    IF ~session.present
    THEN [resp |-> Response(401, "Unauthorized"), body |-> NoBody]
    ELSE IF companyName = <<>> \/ eventName = <<>>
    THEN [resp |-> Response(400, "Company name and event name are required"),
          body |-> NoBody]
    ELSE IF ~mayActFor(session, companyName)
    THEN [resp |-> Response(403, "Unauthorized to access event registrations of this company"),
          body |-> NoBody]
    ELSE LET table == getTableData(db, companyName, eventName)
         IN  IF ~table.ok \/ table.rows = <<>>
             THEN [resp |-> Response(500, "Failed to get event registrations"),
                   body |-> NoBody]
             ELSE LET tableData == table.rows
                      originalHeaders == tableData[1]
                      imageIndex == indexOf(originalHeaders, H_Image)
                      descriptionIndex == indexOf(originalHeaders, H_EventDescription)
                      dateIndex == indexOf(originalHeaders, H_EventDate)
                      statusIndex == indexOf(originalHeaders, H_EventStatus)
                      excludeIndices == excludeIndicesOf(session, originalHeaders)
                      keptCols == SelectSeq([i \in 1..Len(originalHeaders) |-> i - 1],
                                            LAMBDA i : i \notin excludeIndices)
                      rows == SelectSeq(slice(tableData, 1, Len(tableData)),
                                 LAMBDA row : ~isSettingsRowOfList(row, imageIndex,
                                     descriptionIndex, dateIndex, statusIndex))
                  IN  [resp |-> OK,
                       body |-> [headers |-> [k \in 1..Len(keptCols) |->
                                                 originalHeaders[keptCols[k] + 1]],
                                 registrations |-> [k \in 1..Len(rows) |->
                                     registrationOf(rows[k], originalHeaders,
                                                    excludeIndices)]]]

---------------------------------------------------------------------------
(* POST /api/events/register: register a person for an event.              *)

RegisterFields ==
    {"companyName", "eventName", "name", "phone", "email", "gender",
     "college", "status", "nationalId"}

\* The value of a body field: the empty string stands for undefined where the
\* code only tests the field for truthiness.
Field(req, f) == IF f \in req.has THEN req[f] ELSE <<>>

\* decodeURIComponent(raw).trim(); String(undefined) is "undefined".
decodedField(req, f) ==
    LET d == decodeURIComponent(IF f \in req.has THEN req[f] ELSE UNDEFINED)
    IN  [ok |-> d.ok, value |-> trim(d.value)]

\* The directory row of a company, by trimmed lower-cased name.
findCompanyNormalized(db, companyName) ==
    LET companies == slice(getSheetData(db, COMPANIES), 1,
                           Len(getSheetData(db, COMPANIES)))
        S == {i \in 1..Len(companies) :
                 /\ Len(companies[i]) > 1
                 /\ toLowerCase(trim(companies[i][2])) = toLowerCase(companyName)}
    IN  IF S = {} THEN <<>> ELSE companies[Min(S)]

\* events.find(event => event.id.trim().toLowerCase() === eventId.trim().toLowerCase())
matchingEventOf(events, eventId) ==
    LET S == {k \in 1..Len(events) :
                 toLowerCase(trim(events[k].id)) = toLowerCase(trim(eventId))}
    IN  IF S = {} THEN <<>> ELSE events[Min(S)].id

registrantRow(req, registrationDate) ==
    <<Field(req, "name"), Field(req, "phone"), Field(req, "email"),
      Field(req, "gender"), Field(req, "college"), Field(req, "status"),
      Field(req, "nationalId"), registrationDate, <<>>>>

\* The table part of register with the row added before the checks.
registerInTableAddingFirst(db, req, companyName, exactEventName, registrationDate) ==
    LET table == getTableData(db, companyName, exactEventName)
        tableData == table.rows
        headers == tableData[1]
        statusIndex == indexOf(headers, H_EventStatus)
        registrationData == slice(tableData, 1, Len(tableData))
        added == addToTable(db, companyName, exactEventName,
                            registrantRow(req, registrationDate))
        Answer(status, error, db1) ==
            [resp |-> Response(status, error), db |-> db1,
             touched |-> TRUE, exact |-> <<>>]
    IN  IF ~table.ok \/ tableData = <<>>
        THEN Answer(404, "Event not found", db)
        ELSE IF /\ statusIndex # -1
                /\ Len(tableData) > 1
                /\ Cell(tableData[2], statusIndex) = Disabled
        THEN Answer(403, "Event registration is currently disabled", added.db)
        ELSE IF \E i \in 1..Len(registrationData) :
                    \/ Cell(registrationData[i], 2) = Field(req, "email")
                    \/ Cell(registrationData[i], 1) = Field(req, "phone")
        THEN Answer(400, "You are already registered for this event", added.db)
        ELSE IF ~added.ok
        THEN Answer(404, "Event not found", db)
        ELSE [resp |-> OK, db |-> added.db, touched |-> TRUE,
              exact |-> exactEventName]

\* The table part of register: getTableData, the status check of the event,
\* the duplicate check and addToTable.
registerInTable(db, req, companyName, exactEventName, registrationDate) ==
    LET table == getTableData(db, companyName, exactEventName)
        tableData == table.rows
        headers == tableData[1]
        statusIndex == indexOf(headers, H_EventStatus)
        registrationData == slice(tableData, 1, Len(tableData))
        added == addToTable(db, companyName, exactEventName,
                            registrantRow(req, registrationDate))
        Answer(status, error, db1) ==
            [resp |-> Response(status, error), db |-> db1,
             touched |-> TRUE, exact |-> <<>>]
    IN  IF ~table.ok \/ tableData = <<>>
        THEN Answer(404, "Event not found", db)
        ELSE IF /\ statusIndex # -1
                /\ Len(tableData) > 1
                /\ Cell(tableData[2], statusIndex) = Disabled
        THEN Answer(403, "Event registration is currently disabled", db)
        ELSE IF \E i \in 1..Len(registrationData) :
                    \/ Cell(registrationData[i], 2) = Field(req, "email")
                    \/ Cell(registrationData[i], 1) = Field(req, "phone")
        THEN Answer(400, "You are already registered for this event", db)
        ELSE IF ~added.ok
        THEN Answer(404, "Event not found", db)
        ELSE [resp |-> OK, db |-> added.db, touched |-> TRUE,
              exact |-> exactEventName]

\* [resp, db, touched, exact]: the answer, the spreadsheet after the call,
\* whether the handler issued any store call, and the table name it resolved.
register(db, req, registrationDate) ==
    LET dc == decodedField(req, "companyName")
        de == decodedField(req, "eventName")
        companyName == dc.value
        eventId == de.value
        name == Field(req, "name")
        phone == Field(req, "phone")
        email == Field(req, "email")
        Answer(status, error, touched) ==
            [resp |-> Response(status, error), db |-> db,
             touched |-> touched, exact |-> <<>>]
    IN
    IF ~dc.ok \/ ~de.ok
    THEN Answer(500, "Failed to register for event", FALSE)
    ELSE IF \/ companyName = <<>> \/ eventId = <<>> \/ name = <<>>
            \/ phone = <<>> \/ email = <<>> \/ Field(req, "gender") = <<>>
            \/ Field(req, "college") = <<>> \/ Field(req, "status") = <<>>
            \/ Field(req, "nationalId") = <<>>
    THEN Answer(400, "All fields are required", FALSE)
    ELSE IF ~emailRegex(email)
    THEN Answer(400, "Invalid email format", FALSE)
    ELSE IF ~phoneRegex(phone)
    THEN Answer(400, "Invalid phone number format", FALSE)
    ELSE IF ~SheetExists(db, companyName) \/ getSheetData(db, companyName) = <<>>
    THEN Answer(404, "Company not found", TRUE)
    ELSE IF ~SheetExists(db, COMPANIES)
    THEN Answer(404, "Company not found", TRUE)
    ELSE LET company == findCompanyNormalized(db, companyName)
         IN
         IF company = <<>>
         THEN Answer(404, "Company not found", TRUE)
         ELSE IF companyStatusOf(company) = Disabled
         THEN Answer(403, "Company is disabled, registration is not available", TRUE)
         ELSE LET eventsData == listEvents(db, companyName)
                  exactEventName == matchingEventOf(eventsData.events, eventId)
              IN
              IF eventsData.resp.status # 200 \/ eventsData.events = <<>>
              THEN Answer(404, "No events found for this company", TRUE)
              ELSE IF exactEventName = <<>>
              THEN Answer(404, "Event not found for this company", TRUE)
              ELSE registerInTable(db, req, companyName, exactEventName,
                                   registrationDate)

---------------------------------------------------------------------------
(* POST and PUT /api/companies: the company directory.                     *)

\* bcrypt.hash(password, 10)
hash(password) == <<"$">> \o password

\* `company_${Date.now()}`
companyId(now) == <<"c","o","m","p","a","n","y","_", Ascii[now + 17]>>

directoryRows(db) ==
    slice(getSheetData(db, COMPANIES), 1, Len(getSheetData(db, COMPANIES)))

\* existingCompanies.some(row => row[2] === username)
usernameExists(existingCompanies, username) ==
    \E i \in 1..Len(existingCompanies) :
        Cell(existingCompanies[i], 2) = username

\* companies.some((row, index) => index !== companyIndex && row[2] === username)
usernameTaken(companies, companyIndex, username) ==
    \E index \in 0..(Len(companies) - 1) :
        /\ index # companyIndex
        /\ Cell(companies[index + 1], 2) = username

\* [resp, db, files, clock]
createCompany(db, fs, now, session, name, username, password, image) ==
    IF ~session.present \/ session.type # "admin"
    THEN [resp |-> Response(401, "Unauthorized"), db |-> db, files |-> fs,
          clock |-> now]
    ELSE IF name = <<>> \/ username = <<>> \/ password = <<>>
    THEN [resp |-> Response(400, "Name, username, and password are required"),
          db |-> db, files |-> fs, clock |-> now]
    ELSE LET db0 == IF SheetExists(db, COMPANIES) THEN db
                    ELSE appendToSheet(createSheet(db, COMPANIES).db, COMPANIES,
                                       <<CompaniesHeader>>)
             existingCompanies == directoryRows(db0)
         IN  IF usernameExists(existingCompanies, username)
             THEN [resp |-> Response(400, "Username already exists"),
                   db |-> db0, files |-> fs, clock |-> now]
             ELSE LET id == companyId(now)
                      uploaded == IF image # <<>> THEN fs + 1 ELSE fs
                      imageUrl == IF image # <<>> THEN ImageUrl ELSE <<>>
                      db1 == appendToSheet(db0, COMPANIES,
                                 << <<id, name, username, hash(password),
                                      imageUrl, Enabled>> >>)
                      sheet == createSheet(db1, name)
                  IN  IF ~sheet.ok
                      THEN [resp |-> Response(500, "Failed to create company"),
                            db |-> db1, files |-> uploaded, clock |-> now + 1]
                      ELSE [resp |-> OK, db |-> sheet.db, files |-> uploaded,
                            clock |-> now + 1]

\* The row written without the fall-back to the current values.
updatedCompanyRowAsSupplied(id, name, username, hashedPassword, imageUrl, status, currentCompany) ==
    <<id, name, username, hashedPassword, imageUrl, status>>

\* updatedCompany: [id, name || currentName, username || currentUsername,
\* hashedPassword, imageUrl, status || currentStatus]
updatedCompanyRow(id, name, username, hashedPassword, imageUrl, status, currentCompany) ==
    <<id,
      IF name # <<>> THEN name ELSE Cell(currentCompany, 1),
      IF username # <<>> THEN username ELSE Cell(currentCompany, 2),
      hashedPassword,
      imageUrl,
      IF status # <<>> THEN status ELSE companyStatusOf(currentCompany)>>

\* [resp, db, files, renamed]; renamed is <<old, new>> when the company sheet
\* was renamed, else <<>>.  An absent body field is <<>>.
updateCompany(db, fs, session, id, name, username, password, image, status) ==
    IF ~session.present \/ session.type # "admin"
    THEN [resp |-> Response(401, "Unauthorized"), db |-> db, files |-> fs,
          renamed |-> <<>>]
    ELSE IF id = <<>>
    THEN [resp |-> Response(400, "Company ID is required"), db |-> db,
          files |-> fs, renamed |-> <<>>]
    ELSE IF ~SheetExists(db, COMPANIES)
    THEN [resp |-> Response(500, "Failed to update company"), db |-> db,
          files |-> fs, renamed |-> <<>>]
    ELSE LET companies == directoryRows(db)
             companyIndex ==
                 LET S == {i \in 0..(Len(companies) - 1) :
                              Cell(companies[i + 1], 0) = id}
                 IN  IF S = {} THEN -1 ELSE Min(S)
         IN
         IF companyIndex = -1
         THEN [resp |-> Response(404, "Company not found"), db |-> db,
               files |-> fs, renamed |-> <<>>]
         ELSE LET currentCompany == companies[companyIndex + 1]
                  currentName == Cell(currentCompany, 1)
                  currentUsername == Cell(currentCompany, 2)
                  currentPassword == Cell(currentCompany, 3)
                  currentImage == Cell(currentCompany, 4)
                  currentStatus == companyStatusOf(currentCompany)
              IN
              IF /\ username # <<>>
                 /\ username # currentUsername
                 /\ usernameTaken(companies, companyIndex, username)
              THEN [resp |-> Response(400, "Username already exists"),
                    db |-> db, files |-> fs, renamed |-> <<>>]
              ELSE LET hashedPassword == IF password # <<>> THEN hash(password)
                                         ELSE currentPassword
                       uploaded == IF image # <<>> THEN fs + 1 ELSE fs
                       imageUrl == IF image # <<>> THEN ImageUrl ELSE currentImage
                       updatedCompany ==
                           updatedCompanyRow(id, name, username, hashedPassword,
                                             imageUrl, status, currentCompany)
                       db1 == updateRow(db, COMPANIES, companyIndex + 1,
                                        updatedCompany)
                       sheet == renameSheet(db1, currentName, name)
                   IN  IF name # <<>> /\ name # currentName
                       THEN IF ~sheet.ok
                            THEN [resp |-> Response(500, "Failed to update company"),
                                  db |-> db1, files |-> uploaded,
                                  renamed |-> <<>>]
                            ELSE [resp |-> OK, db |-> sheet.db,
                                  files |-> uploaded,
                                  renamed |-> <<currentName, name>>]
                       ELSE [resp |-> OK, db |-> db1, files |-> uploaded,
                             renamed |-> <<>>]

---------------------------------------------------------------------------
(* Inputs of the requests, drawn from small sets.                          *)

Ac == <<"A","c">>
Bc == <<"B","c">>
Zz == <<"Z","z">>
CompanyNames == {Ac, Bc}

U1 == <<"u","1">>
U2 == <<"0","7">>
Usernames == {U1, U2}
Pw == <<"p","w">>
ImageData == <<"d","a","t","a",":">>

La == <<"L","a">>
la == <<"l","a">>
IDa == <<"I","D","a">>
EventNames == {La, la, IDa}

Description == <<"d">>
EventDay == <<"2","0","2","5","-","0","1","-","0","1">>
Timestamps == {<<"2","0","2","5","-","0","1","-","0","2","T","0","0",":","0","0","Z">>}

Phone1 == <<"0","1","0","1","2","3","4","5","6","7","8">>
Phone2 == <<"1","1","1","2","3","4","5","6","7","8">>
Email1 == <<"s","@","x",".","c">>
Email2 == <<"t","@","x",".","c">>
Sam == <<"S","a","m">>

\* A complete register body.  The second e-mail address belongs to a person
\* whose name is also the name of an event.
RegisterRequest(companyName, eventName, phone, email) ==
    [has |-> RegisterFields,
     companyName |-> companyName,
     eventName |-> eventName,
     name |-> IF email = Email1 THEN Sam ELSE la,
     phone |-> phone,
     email |-> email,
     gender |-> <<"m">>,
     college |-> <<"E">>,
     status |-> <<"s">>,
     nationalId |-> IF email = Email1 THEN <<"1","2","3">> ELSE <<"4","5","6">>]

BaseRequest == RegisterRequest(Ac, La, Phone1, Email1)

\* Three people: two of them share a phone number, two an e-mail address.
People == {<<Phone1, Email1>>, <<Phone1, Email2>>, <<Phone2, Email2>>}

RegisterRequests ==
    {RegisterRequest(Ac, e, who[1], who[2]) : e \in EventNames, who \in People}

\* Bodies with one defect each, a body for a company that does not exist and
\* a body whose event name differs from a table name in case and whitespace.
DefectiveRegisterRequests ==
    {[BaseRequest EXCEPT !.has = RegisterFields \ {f}] :
        f \in {"companyName", "eventName", "name", "nationalId"}}
    \cup {[BaseRequest EXCEPT !.email = m] :
            m \in {<<>>, <<"s","@","x">>, <<"s"," ","@","x",".","c">>}}
    \cup {[BaseRequest EXCEPT !.phone = p] :
            p \in {<<"0","1","2","3","4","5","6","7","8">>,
                   <<"0","1","2","3","4","5","6","7","8","9",
                     "0","1","2","3","4","5">>,
                   <<"+","1","2","3","4","5","6","7","8","9","0">>}}
    \cup {[BaseRequest EXCEPT !.companyName = <<" "," ">>],
          [BaseRequest EXCEPT !.companyName = Zz],
          [BaseRequest EXCEPT !.eventName = <<"L","A","%","2","0">>],
          [BaseRequest EXCEPT !.eventName = <<"%">>]}

InputRegisterRequests ==
    DefectiveRegisterRequests
    \cup {RegisterRequest(Ac, La, who[1], who[2]) : who \in People}

\* createEvent bodies of the admin: every name, with and without an image.
EventRequest(eventName, image) ==
    [session |-> AdminSession, companyName |-> Ac, eventName |-> eventName,
     eventDescription |-> Description, eventDate |-> EventDay, image |-> image]

CreateEventRequests ==
    {EventRequest(e, i) : e \in EventNames, i \in {<<>>, ImageData}}

\* listRegistrations queries of the admin and of the company itself.
ListRegistrationsRequests ==
    {[session |-> s, companyName |-> Ac, eventName |-> e] :
        s \in {AdminSession, CompanySession(Ac)}, e \in EventNames}

\* The requests of the status specification: two events whose names differ
\* in case only, enabled and disabled by the admin.
StatusEventNames == {La, la}

StatusCreateEventRequests == {EventRequest(e, <<>>) : e \in StatusEventNames}

StatusRegisterRequests ==
    {RegisterRequest(Ac, e, who[1], who[2]) :
        e \in StatusEventNames, who \in {<<Phone1, Email1>>, <<Phone2, Email2>>}}

SetEventStatusRequests ==
    {[session |-> AdminSession, company |-> Ac, event |-> e, status |-> st] :
        e \in StatusEventNames, st \in {Enabled, Disabled}}

\* createCompany bodies.
CreateCompanyRequests ==
    {[session |-> AdminSession, name |-> n, username |-> u, password |-> Pw,
      image |-> i] : n \in CompanyNames, u \in Usernames, i \in {<<>>, ImageData}}
    \cup {[session |-> s, name |-> Ac, username |-> U1, password |-> Pw,
           image |-> <<>>] : s \in {NoSession, CompanySession(Ac)}}
    \cup {[session |-> AdminSession, name |-> Ac, username |-> <<>>,
           password |-> Pw, image |-> <<>>]}

CompanyIds == {companyId(n) : n \in 1..MaxCompanies}

NoUpdate(id) ==
    [session |-> AdminSession, id |-> id, name |-> <<>>, username |-> <<>>,
     password |-> <<>>, image |-> <<>>, status |-> <<>>]

\* updateCompany bodies of the directory specification: one or two fields
\* supplied at a time.
UpdateCompanyRequests ==
    {[NoUpdate(id) EXCEPT !.name = n] : id \in CompanyIds, n \in CompanyNames}
    \cup {[NoUpdate(id) EXCEPT !.username = u] : id \in CompanyIds, u \in Usernames}
    \cup {[NoUpdate(id) EXCEPT !.status = st] :
            id \in CompanyIds, st \in {Enabled, Disabled}}
    \cup {[NoUpdate(id) EXCEPT !.name = n, !.username = u] :
            id \in CompanyIds, n \in CompanyNames, u \in Usernames}
    \cup {[NoUpdate(id) EXCEPT !.password = Pw, !.image = ImageData] :
            id \in CompanyIds}
    \cup {NoUpdate(companyId(0)), NoUpdate(<<>>),
          [NoUpdate(companyId(1)) EXCEPT !.session = NoSession]}

\* updateCompany bodies of the event specification: the admin enables or
\* disables the company.
StatusUpdateRequests ==
    {[NoUpdate(companyId(1)) EXCEPT !.status = st] : st \in {Enabled, Disabled}}

---------------------------------------------------------------------------
(* The handlers as actions.  Requests are handled one at a time.           *)

Bounded(db, fs) ==
    /\ fs <= MaxFiles
    /\ \A t \in DOMAIN db :
           Len(db[t]) <= (IF t = COMPANIES THEN MaxCompanies + 1 ELSE MaxRows)

\* The record of a handled request: touched says whether the handler issued
\* any store call, wrote whether the call changed the spreadsheet.
Last(op, arg, resp, touched, wrote, body) ==
    [op |-> op, arg |-> arg, resp |-> resp, touched |-> touched,
     wrote |-> wrote, body |-> body]

\* Each handler runs once per request: r is its result.
ListEvents(companyName) ==
    \E r \in {listEvents(sheets, companyName)} :
        /\ last' = Last("listEvents", [companyName |-> companyName], r.resp,
                        TRUE, FALSE, r.events)
        /\ UNCHANGED <<inflight, sessions, sheets, files, clock, registered, toggled>>

CreateEvent(req) ==
    \E r \in {createEvent(sheets, files, req.session, req.companyName,
                          req.eventName, req.eventDescription, req.eventDate,
                          req.image)} :
        /\ Bounded(r.db, r.files)
        /\ sheets' = r.db
        /\ files' = r.files
        /\ last' = Last("createEvent", req, r.resp, TRUE, r.db # sheets, <<>>)
        /\ UNCHANGED <<inflight, sessions, clock, registered, toggled>>

SetEventStatus(req) ==
    \E r \in {setEventStatus(sheets, req.session, req.company, req.event,
                             req.status)} :
        /\ sheets' = r.db
        /\ last' = Last("setEventStatus", req, r.resp, TRUE, r.db # sheets, <<>>)
        /\ toggled' = IF r.resp.status = 200
                      THEN (<<req.company, req.event>> :> req.status) @@ toggled
                      ELSE toggled
        /\ UNCHANGED <<inflight, sessions, files, clock, registered>>

ListRegistrations(req) ==
    \E r \in {listRegistrations(sheets, req.session, req.companyName,
                                req.eventName)} :
        /\ last' = Last("listRegistrations", req, r.resp, TRUE, FALSE, r.body)
        /\ UNCHANGED <<inflight, sessions, sheets, files, clock, registered, toggled>>

Register(req) ==
    \E registrationDate \in Timestamps :
    \E r \in {register(sheets, req, registrationDate)} :
        /\ Bounded(r.db, files)
        /\ sheets' = r.db
        /\ last' = Last("register", req, r.resp, r.touched, r.db # sheets, <<>>)
        /\ registered' =
               IF r.resp.status = 200
               THEN Append(registered,
                        [company |-> decodedField(req, "companyName").value,
                         eventId |-> decodedField(req, "eventName").value,
                         exact |-> r.exact,
                         row |-> registrantRow(req, registrationDate),
                         email |-> req.email,
                         phone |-> req.phone])
               ELSE registered
        /\ UNCHANGED <<inflight, sessions, files, clock, toggled>>

CreateCompany(req) ==
    \E r \in {createCompany(sheets, files, clock, req.session, req.name,
                            req.username, req.password, req.image)} :
        /\ Bounded(r.db, r.files)
        /\ sheets' = r.db
        /\ files' = r.files
        /\ clock' = r.clock
        /\ last' = Last("createCompany", req, r.resp, TRUE, r.db # sheets, <<>>)
        /\ UNCHANGED <<inflight, sessions, registered, toggled>>

\* The histories follow a company sheet when it is renamed.
Renamed(renamed, companyName) ==
    IF renamed # <<>> /\ companyName = renamed[1] THEN renamed[2] ELSE companyName

UpdateCompany(req) ==
    \E r \in {updateCompany(sheets, files, req.session, req.id, req.name,
                            req.username, req.password, req.image, req.status)} :
        /\ Bounded(r.db, r.files)
        /\ sheets' = r.db
        /\ files' = r.files
        /\ last' = Last("updateCompany", req, r.resp, TRUE, r.db # sheets, <<>>)
        /\ registered' = [k \in 1..Len(registered) |->
               [registered[k] EXCEPT !.company = Renamed(r.renamed, @)]]
        /\ toggled' = [key \in {<<Renamed(r.renamed, k[1]), k[2]>> :
                                   k \in DOMAIN toggled} |->
               toggled[CHOOSE k \in DOMAIN toggled :
                           <<Renamed(r.renamed, k[1]), k[2]>> = key]]
        /\ UNCHANGED <<inflight, sessions, clock>>

---------------------------------------------------------------------------
(* Specifications.                                                         *)

NoRequest == Last("", <<>>, OK, FALSE, FALSE, <<>>)

\* The event specification starts after the admin has created company Ac:
\* the directory holds its row and its sheet is empty.
Init ==
    /\ sheets = (COMPANIES :> <<CompaniesHeader,
                                <<companyId(1), Ac, U1, hash(Pw), <<>>, Enabled>> >>)
                @@ (Ac :> <<>>)
    /\ files = 0
    /\ clock = 2
    /\ last = NoRequest
    /\ registered = <<>>
    /\ toggled = <<>>
    /\ inflight = <<>>
    /\ sessions = {}

Next ==
    \/ \E req \in CreateEventRequests : CreateEvent(req)
    \/ \E req \in RegisterRequests : Register(req)
    \/ \E req \in ListRegistrationsRequests : ListRegistrations(req)
    \/ ListEvents(Ac)

Spec == Init /\ [][Next]_vars

\* The status specification: events and the company are enabled and
\* disabled between registrations.
NextStatus ==
    \/ \E req \in StatusCreateEventRequests : CreateEvent(req)
    \/ \E req \in SetEventStatusRequests : SetEventStatus(req)
    \/ \E req \in StatusRegisterRequests : Register(req)
    \/ \E req \in StatusUpdateRequests : UpdateCompany(req)

SpecStatus == Init /\ [][NextStatus]_vars

\* The input specification: register bodies of every shape against a company
\* with one event.
NextInput ==
    \/ CreateEvent(EventRequest(La, <<>>))
    \/ \E req \in InputRegisterRequests : Register(req)

SpecInput == Init /\ [][NextInput]_vars

\* The directory specification starts from the empty spreadsheet.
InitDir ==
    /\ sheets = <<>>
    /\ files = 0
    /\ clock = 1
    /\ last = NoRequest
    /\ registered = <<>>
    /\ toggled = <<>>
    /\ inflight = <<>>
    /\ sessions = {}

NextDir ==
    \/ \E req \in CreateCompanyRequests : CreateCompany(req)
    \/ \E req \in UpdateCompanyRequests : UpdateCompany(req)

SpecDir == InitDir /\ [][NextDir]_vars

---------------------------------------------------------------------------
(* Vocabulary of the properties.                                           *)

Kind == ErrorKind(last.resp)

\* The company and the event a register body names.
CompanyOf(req) == decodedField(req, "companyName").value
EventOf(req) == decodedField(req, "eventName").value

\* The names of the marker rows of a sheet, and the sheets of companies.
markerIndices(data) ==
    {i \in 0..(Len(data) - 1) : Len(data[i + 1]) = 1 /\ data[i + 1][1] # <<>>}

markerNames(data) == {data[i + 1][1] : i \in markerIndices(data)}

companySheets == DOMAIN sheets \ {COMPANIES}

\* The directory lists the company, by its exact name, with this status.
CompanyHasStatus(companyName, status) ==
    /\ SheetExists(sheets, COMPANIES)
    /\ findCompanyExact(sheets, companyName) # <<>>
    /\ companyStatusOf(findCompanyExact(sheets, companyName)) = status

\* listEvents shows the event as enabled.
EventListedEnabled(companyName, eventName) ==
    LET r == listEvents(sheets, companyName)
    IN  /\ r.resp.status = 200
        /\ \E k \in 1..Len(r.events) :
               r.events[k].id = eventName /\ r.events[k].status = Enabled

\* A register body that passes validation.
ValidBody(req) ==
    /\ req.has = RegisterFields
    /\ \A f \in RegisterFields : trim(req[f]) # <<>>
    /\ emailRegex(req.email)
    /\ phoneRegex(req.phone)
    /\ decodeURIComponent(req.companyName).ok
    /\ decodeURIComponent(req.eventName).ok

\* The successful register calls before the last request.
PriorRegistered ==
    IF last.op = "register" /\ last.resp.status = 200
    THEN SubSeq(registered, 1, Len(registered) - 1)
    ELSE registered

\* An earlier successful register call for the same event gave this e-mail
\* address or this phone number.
RegisteredBefore(req) ==
    \E k \in 1..Len(PriorRegistered) :
        /\ PriorRegistered[k].company = CompanyOf(req)
        /\ PriorRegistered[k].eventId = EventOf(req)
        /\ \/ PriorRegistered[k].email = req.email
           \/ PriorRegistered[k].phone = req.phone

---------------------------------------------------------------------------
(* C1 *)

\* C1: after addToTable(sheet, T, row) returns, getTableData(sheet, T) has
\* that row as its last row, also when another table follows T.  addToTable
\* is called by register (the registrant row) and by createEvent (the
\* settings row); the row is compared without its trailing empty cells.
C1_AppendedRowIsLastRowOfItsTable ==
    /\ (last.op = "register" /\ last.resp.status = 200) =>
           LET e == registered[Len(registered)]
               table == getTableData(sheets, e.company, e.exact)
           IN  /\ table.ok
               /\ table.rows # <<>>
               /\ table.rows[Len(table.rows)] = TrimRow(e.row)
    /\ (last.op = "createEvent" /\ last.resp.status = 200) =>
           LET table == getTableData(sheets, last.arg.companyName,
                                     last.arg.eventName)
           IN  /\ table.ok
               /\ table.rows # <<>>
               /\ table.rows[Len(table.rows)] =
                      TrimRow(settingsRowOf(EventHeaders,
                                  IF last.arg.image # <<>> THEN ImageUrl ELSE <<>>,
                                  last.arg.eventDescription, last.arg.eventDate))

---------------------------------------------------------------------------
(* C2 *)

\* C2: for an enabled company and an enabled event of it, once a register
\* call for the event has succeeded with e-mail e and phone p, every later
\* register call for the same event with e or p fails with Conflict and
\* appends no row.
C2_SecondRegistrationConflicts ==
    (/\ last.op = "register"
     /\ ValidBody(last.arg)
     /\ CompanyHasStatus(CompanyOf(last.arg), Enabled)
     /\ EventListedEnabled(CompanyOf(last.arg), EventOf(last.arg))
     /\ RegisteredBefore(last.arg))
    => (Kind = "Conflict" /\ ~last.wrote)

---------------------------------------------------------------------------
(* C3 *)

\* The table of the event has a row after its header.
HasSettingsRow(companyName, eventName) ==
    /\ SheetExists(sheets, companyName)
    /\ eventIndexOf(sheets[companyName], eventName) # -1
    /\ Len(getTableData(sheets, companyName, eventName).rows) >= 2

\* C3: for an event E whose table has a settings row, after a successful
\* setEventStatus(company, E, disabled) every register call for E fails with
\* Forbidden and appends no row, until a setEventStatus(company, E, enabled)
\* succeeds; after that a register call for a person not yet registered for
\* E succeeds.
C3_DisabledEventRejectsRegistration ==
    (/\ last.op = "register"
     /\ ValidBody(last.arg)
     /\ <<CompanyOf(last.arg), EventOf(last.arg)>> \in DOMAIN toggled
     /\ HasSettingsRow(CompanyOf(last.arg), EventOf(last.arg)))
    => LET status == toggled[<<CompanyOf(last.arg), EventOf(last.arg)>>]
       IN  /\ status = Disabled => (Kind = "Forbidden" /\ ~last.wrote)
           /\ (/\ status = Enabled
               /\ CompanyHasStatus(CompanyOf(last.arg), Enabled)
               /\ ~RegisteredBefore(last.arg))
              => Kind = "OK"

---------------------------------------------------------------------------
(* C4 *)

\* C4: a register call with valid input for a company that the directory
\* lists as disabled returns Forbidden, never NotFound, whatever the company
\* sheet holds and whatever event is named, and appends nothing.
C4_DisabledCompanyIsForbidden ==
    (/\ last.op = "register"
     /\ ValidBody(last.arg)
     /\ CompanyHasStatus(CompanyOf(last.arg), Disabled))
    => (Kind = "Forbidden" /\ ~last.wrote)

---------------------------------------------------------------------------
(* C5 *)

\* One of the nine fields is missing or empty, or the e-mail address or the
\* phone number has the wrong shape.
Defective(req) ==
    \/ \E f \in RegisterFields : f \notin req.has \/ req[f] = <<>>
    \/ ~emailRegex(req.email)
    \/ ~phoneRegex(req.phone)

\* C5: a register body with a missing or empty field, a malformed e-mail
\* address or a malformed phone number is rejected as InvalidArgument before
\* any read or write of the store is issued.
C5_DefectiveBodyNeverReachesStore ==
    (last.op = "register" /\ Defective(last.arg))
    => (Kind = "InvalidArgument" /\ ~last.touched)

---------------------------------------------------------------------------
(* C6 *)

\* The spreadsheet with every National ID cell of a registrant row replaced
\* by the same value.
ScrubNationalId(db) ==
    [t \in DOMAIN db |->
        [i \in 1..Len(db[t]) |->
            IF /\ t # COMPANIES
               /\ db[t][i] # EventHeaders
               /\ Cell(db[t][i], 6) # <<>>
            THEN [db[t][i] EXCEPT ![7] = <<"#">>]
            ELSE db[t][i]]]

Range(seq) == {seq[i] : i \in 1..Len(seq)}

\* C6: for a caller that is not the admin, the headers and the registration
\* objects that listRegistrations returns hold no National ID entry, so the
\* answer does not depend on the National ID cells of the sheet; for the
\* admin the National ID column is included.
C6_NationalIdOnlyForAdmin ==
    (last.op = "listRegistrations" /\ last.resp.status = 200)
    => IF last.arg.session.type = "admin"
       THEN /\ H_NationalID \in Range(last.body.headers)
            /\ \A k \in 1..Len(last.body.registrations) :
                   H_NationalID \in DOMAIN last.body.registrations[k]
       ELSE /\ H_NationalID \notin Range(last.body.headers)
            /\ \A k \in 1..Len(last.body.registrations) :
                   H_NationalID \notin DOMAIN last.body.registrations[k]
            /\ last.body = listRegistrations(ScrubNationalId(sheets),
                               last.arg.session, last.arg.companyName,
                               last.arg.eventName).body

---------------------------------------------------------------------------
(* C7 *)

\* C7: after createEvent(company, E, description, date) succeeds, the list
\* of the events of the company has exactly one event with id E, with that
\* description and date, status enabled and registrations 0.
C7_CreatedEventIsListed ==
    (/\ last.op = "createEvent"
     /\ last.resp.status = 200
     /\ listEvents(sheets, last.arg.companyName).resp.status = 200)
    => LET events == listEvents(sheets, last.arg.companyName).events
           S == {k \in 1..Len(events) : events[k].id = last.arg.eventName}
       IN  /\ Cardinality(S) = 1
           /\ \A k \in S :
                  /\ events[k].description = last.arg.eventDescription
                  /\ events[k].date = last.arg.eventDate
                  /\ events[k].status = Enabled
                  /\ events[k].registrations = 0

---------------------------------------------------------------------------
(* C8 *)

\* C8: no sheet has two marker rows whose names are equal after trimming
\* and lower-casing.
C8_TableNamesUniqueIgnoringCase ==
    \A t \in companySheets :
        \A i, j \in markerIndices(sheets[t]) :
            i # j => toLowerCase(trim(sheets[t][i + 1][1]))
                     # toLowerCase(trim(sheets[t][j + 1][1]))

---------------------------------------------------------------------------
(* C9 *)

\* C9: createEvent with the name of an existing event of the company fails
\* with Conflict, not with the generic store failure, and changes neither
\* the company sheet nor the file host.
C9_DuplicateEventIsConflict ==
    [][(/\ last'.op = "createEvent"
        /\ SheetExists(sheets, last'.arg.companyName)
        /\ last'.arg.eventName \in markerNames(sheets[last'.arg.companyName]))
       => (/\ ErrorKind(last'.resp) = "Conflict"
           /\ sheets' = sheets
           /\ files' = files)]_vars

---------------------------------------------------------------------------
(* C10 *)

usernamesOf(db) ==
    IF SheetExists(db, COMPANIES)
    THEN [i \in 1..Len(directoryRows(db)) |-> Cell(directoryRows(db)[i], 2)]
    ELSE <<>>

directoryOf(db) == IF SheetExists(db, COMPANIES) THEN db[COMPANIES] ELSE <<>>

UniqueUsernames(db) ==
    \A i, j \in 1..Len(usernamesOf(db)) :
        i # j => usernamesOf(db)[i] # usernamesOf(db)[j]

\* The id names a directory row, and another row holds the username.
HeldByAnother(db, id, username) ==
    /\ SheetExists(db, COMPANIES)
    /\ \E i, j \in 1..Len(directoryRows(db)) :
           /\ i # j
           /\ Cell(directoryRows(db)[i], 0) = id
           /\ \A k \in 1..(i - 1) : Cell(directoryRows(db)[k], 0) # id
           /\ Cell(directoryRows(db)[j], 2) = username

\* C10: no two rows of the company directory have the same username:
\* createCompany with a username that a row holds, and updateCompany that
\* changes a username to one that another company holds, fail with Conflict
\* and leave the directory unchanged.
C10_UsernamesUnique ==
    [][/\ UniqueUsernames(sheets')
       /\ (/\ last'.op = "createCompany"
           /\ last'.arg.session.type = "admin"
           /\ last'.arg.name # <<>>
           /\ last'.arg.username \in Range(usernamesOf(sheets)))
          => (/\ ErrorKind(last'.resp) = "Conflict"
              /\ directoryOf(sheets') = directoryOf(sheets))
       /\ (/\ last'.op = "updateCompany"
           /\ last'.arg.session.type = "admin"
           /\ last'.arg.username # <<>>
           /\ HeldByAnother(sheets, last'.arg.id, last'.arg.username))
          => (/\ ErrorKind(last'.resp) = "Conflict"
              /\ directoryOf(sheets') = directoryOf(sheets))]_vars

---------------------------------------------------------------------------
(* The table specification: tables are created and filled; one event name  *)
(* is written in digits.                                                   *)

N07 == <<"0","7">>
TableEventNames == {La, la, N07}

TableCreateEventRequests == {EventRequest(e, <<>>) : e \in TableEventNames}

TableRegisterRequests ==
    {RegisterRequest(Ac, e, who[1], who[2]) :
        e \in {La, la}, who \in {<<Phone1, Email1>>, <<Phone2, Email2>>}}

NextTables ==
    \/ \E req \in TableCreateEventRequests : CreateEvent(req)
    \/ \E req \in TableRegisterRequests : Register(req)

SpecTables == Init /\ [][NextTables]_vars

---------------------------------------------------------------------------
(* C11 *)

\* The indices of the rows that getTableData returns for a table name.
tableRange(data, tableName) ==
    IF tableStartIndex(data, tableName) = -1
    THEN {}
    ELSE (tableStartIndex(data, tableName) + 1)
         ..(tableEndIndex(data, tableStartIndex(data, tableName)) - 1)

\* The rows between the marker row at index i and the next marker row.
ownRun(data, i) ==
    {k \in (i + 1)..(Len(data) - 1) :
        \A m \in markerIndices(data) : ~(i < m /\ m <= k)}

\* C11: in every sheet built by createEvent and register calls, the row
\* ranges that getTableData resolves for the names of the tables are
\* pairwise disjoint, each is the run of rows between the table's own marker
\* row and the next marker row (or the end of the sheet), and together they
\* cover every row that is not a marker row.
C11_TablesPartitionTheSheet ==
    \A t \in companySheets :
        LET data == sheets[t]
            M == markerIndices(data)
        IN  /\ \A i \in M : tableRange(data, data[i + 1][1]) = ownRun(data, i)
            /\ \A i, j \in M :
                   i # j => tableRange(data, data[i + 1][1])
                            \cap tableRange(data, data[j + 1][1]) = {}
            /\ UNION {tableRange(data, data[i + 1][1]) : i \in M}
                   = (0..(Len(data) - 1)) \ M

---------------------------------------------------------------------------
(* C12 *)

\* No marker row of the sheet has this name, exactly or ignoring case and
\* surrounding whitespace.
NoMarkerNamed(data, tableName) ==
    \A i \in markerIndices(data) :
        toLowerCase(trim(data[i + 1][1])) # toLowerCase(trim(tableName))

\* C12: for every sheet S and every name T that no marker row of S has,
\* createTable(S, T, H) succeeds and getTableData(S, T) then returns rows
\* whose first row is H, also when a row of S that is not a marker row has T
\* in its first cell.
C12_CreateTableThenFindTable ==
    \A t \in companySheets :
        \A tableName \in {La, la, Sam} :
            NoMarkerNamed(sheets[t], tableName) =>
                LET created == createTable(sheets, t, tableName, EventHeaders)
                IN  /\ created.ok
                    /\ getTableData(created.db, t, tableName).ok
                    /\ getTableData(created.db, t, tableName).rows # <<>>
                    /\ getTableData(created.db, t, tableName).rows[1]
                           = EventHeaders

---------------------------------------------------------------------------
(* The delete specification: tables are created, filled and deleted.       *)

\* deleteTable is called directly; a thrown 'Table ... not found' is
\* recorded as the answer NotFound.
DeleteTable(sheetName, tableName) ==
    \E r \in {deleteTable(sheets, sheetName, tableName)} :
        /\ sheets' = r.db
        /\ last' = Last("deleteTable",
                        [sheetName |-> sheetName, tableName |-> tableName],
                        IF r.ok THEN OK ELSE Response(404, "Table not found"),
                        TRUE, r.db # sheets, <<>>)
        /\ UNCHANGED <<inflight, sessions, files, clock, registered, toggled>>

DeleteTableNames == {La, la, Sam}

\* Deleting frees rows, so the number of registrations is capped.
NextDelete ==
    \/ \E req \in StatusCreateEventRequests : CreateEvent(req)
    \/ \E req \in TableRegisterRequests :
           Len(registered) < MaxRegistered /\ Register(req)
    \/ \E tableName \in DeleteTableNames : DeleteTable(Ac, tableName)

SpecDelete == Init /\ [][NextDelete]_vars

---------------------------------------------------------------------------
(* C13 *)

\* The marker rows of the sheet that are named exactly tableName.
markersNamed(data, tableName) ==
    {i \in markerIndices(data) : data[i + 1][1] = tableName}

\* The sheet without the marker row at index i and the rows of its run.
withoutTable(data, i) ==
    SubSeq(data, 1, i)
    \o SubSeq(data, i + 2 + Cardinality(ownRun(data, i)), Len(data))

\* C13: deleteTable(S, T) on a sheet with a marker row named exactly T
\* removes that marker row and the rows after it up to the next marker row,
\* and nothing else; when no marker row is named exactly T it fails with
\* NotFound and leaves the sheet unchanged.
C13_DeleteTableFrame ==
    [][(last'.op = "deleteTable") =>
          LET data == sheets[last'.arg.sheetName]
              M == markersNamed(data, last'.arg.tableName)
          IN  IF M # {}
              THEN /\ last'.resp.status = 200
                   /\ sheets' = [sheets EXCEPT ![last'.arg.sheetName] =
                                    withoutTable(data, Min(M))]
              ELSE /\ ErrorKind(last'.resp) = "NotFound"
                   /\ sheets' = sheets]_vars

---------------------------------------------------------------------------
(* C14 *)

\* The position in the companies sheet of the first directory row with this
\* id; 0 when there is none.
directoryIndexOf(db, id) ==
    IF ~SheetExists(db, COMPANIES) THEN 0
    ELSE LET S == {i \in 2..Len(db[COMPANIES]) : Cell(db[COMPANIES][i], 0) = id}
         IN  IF S = {} THEN 0 ELSE Min(S)

\* C14: updateCompany on an existing id changes, in the directory row of
\* that company, only the fields that the request supplies: the id, every
\* field that is not supplied and every other directory row stay as they
\* were, a successful call stores the supplied fields, and the company
\* sheet is renamed only when a name different from the current one is
\* supplied; the rows of the company sheets are not changed.
C14_UpdateCompanyFrame ==
    [][(/\ last'.op = "updateCompany"
        /\ last'.arg.session.type = "admin"
        /\ directoryIndexOf(sheets, last'.arg.id) # 0)
       => LET a == last'.arg
              idx == directoryIndexOf(sheets, a.id)
              old == sheets[COMPANIES]
              new == sheets'[COMPANIES]
          IN  /\ Len(new) = Len(old)
              /\ \A i \in 1..Len(old) : i # idx => new[i] = old[i]
              /\ Cell(new[idx], 0) = Cell(old[idx], 0)
              /\ a.name = <<>> => Cell(new[idx], 1) = Cell(old[idx], 1)
              /\ a.username = <<>> => Cell(new[idx], 2) = Cell(old[idx], 2)
              /\ a.password = <<>> => Cell(new[idx], 3) = Cell(old[idx], 3)
              /\ a.image = <<>> => Cell(new[idx], 4) = Cell(old[idx], 4)
              /\ a.status = <<>> => Cell(new[idx], 5) = Cell(old[idx], 5)
              /\ last'.resp.status = 200 =>
                     /\ a.name # <<>> => Cell(new[idx], 1) = userEntered(a.name)
                     /\ a.username # <<>> =>
                            Cell(new[idx], 2) = userEntered(a.username)
                     /\ a.password # <<>> => Cell(new[idx], 3) = hash(a.password)
                     /\ a.image # <<>> =>
                            Cell(new[idx], 4) \in {ImageUrl, Cell(old[idx], 4)}
                     /\ a.status # <<>> => Cell(new[idx], 5) = a.status
              /\ DOMAIN sheets' # DOMAIN sheets =>
                     (a.name # <<>> /\ a.name # Cell(old[idx], 1))
              /\ \A t \in DOMAIN sheets \ {COMPANIES} :
                     \/ t \in DOMAIN sheets' /\ sheets'[t] = sheets[t]
                     \/ /\ t = Cell(old[idx], 1)
                        /\ t \notin DOMAIN sheets'
                        /\ a.name \in DOMAIN sheets'
                        /\ sheets'[a.name] = sheets[t]]_vars

\* A successful updateCompany that supplied only a new name changed the
\* directory, which holds two companies, and the sheet of that name exists.
C14_Witness ==
    /\ last.op = "updateCompany"
    /\ last.resp.status = 200
    /\ last.wrote
    /\ last.arg.name # <<>>
    /\ last.arg.username = <<>>
    /\ SheetExists(sheets, last.arg.name)
    /\ Len(directoryOf(sheets)) = 3

---------------------------------------------------------------------------
(* The authorization specification: company Ac has an event with a         *)
(* registrant; callers without a session and callers of company Bc send    *)
(* well-formed and malformed requests for Ac.                              *)

ForeignSessions == {NoSession, CompanySession(Bc)}

AuthCreateEventRequests ==
    {EventRequest(La, <<>>)}
    \cup {[EventRequest(e, i) EXCEPT !.session = s] :
            s \in ForeignSessions, e \in {la, <<>>}, i \in {<<>>, ImageData}}

AuthSetEventStatusRequests ==
    {[session |-> AdminSession, company |-> Ac, event |-> La, status |-> st] :
        st \in {Enabled, Disabled}}
    \cup {[session |-> s, company |-> Ac, event |-> e, status |-> st] :
            s \in ForeignSessions, e \in {La, <<>>}, st \in {Disabled, <<"x">>}}

AuthListRegistrationsRequests ==
    {[session |-> CompanySession(Ac), companyName |-> Ac, eventName |-> La]}
    \cup {[session |-> s, companyName |-> Ac, eventName |-> e] :
            s \in ForeignSessions, e \in {La, <<>>}}

AuthRegisterRequests ==
    {RegisterRequest(Ac, La, Phone1, Email1), RegisterRequest(Ac, La, Phone2, Email2)}

NextAuth ==
    \/ \E req \in AuthCreateEventRequests : CreateEvent(req)
    \/ \E req \in AuthSetEventStatusRequests : SetEventStatus(req)
    \/ \E req \in AuthListRegistrationsRequests : ListRegistrations(req)
    \/ \E req \in AuthRegisterRequests : Register(req)

SpecAuth == Init /\ [][NextAuth]_vars

---------------------------------------------------------------------------
(* C15 *)

AuthOps == {"createEvent", "setEventStatus", "listRegistrations"}

\* The company a request of the three handlers is about.
TargetCompany(op, arg) ==
    IF op = "setEventStatus" THEN arg.company ELSE arg.companyName

\* The request carries every field its handler requires.
WellFormed(op, arg) ==
    CASE op = "createEvent" ->
             /\ arg.companyName # <<>> /\ arg.eventName # <<>>
             /\ arg.eventDescription # <<>> /\ arg.eventDate # <<>>
      [] op = "setEventStatus" ->
             /\ arg.company # <<>> /\ arg.event # <<>>
             /\ arg.status \in {Enabled, Disabled}
      [] OTHER -> arg.companyName # <<>> /\ arg.eventName # <<>>

\* The caller is signed in, is not the admin and is not the target company.
ForeignCaller(op, arg) ==
    /\ arg.session.present
    /\ arg.session.type # "admin"
    /\ arg.session.name # TargetCompany(op, arg)

\* The request left the sheets and the file host as they were and its
\* answer carries no registration data.
NothingWrittenOrReturned ==
    /\ sheets' = sheets
    /\ files' = files
    /\ last'.body \in {<<>>, NoBody}

\* C15 as stated: createEvent, setEventStatus and listRegistrations reject
\* a request without a session as unauthorized and a request of a caller
\* that is neither the admin nor the target company as Forbidden, without
\* writing a row or returning registration data.
C15_ForeignCallerIsForbidden ==
    [][(last'.op \in AuthOps) =>
          /\ ~last'.arg.session.present =>
                 (ErrorKind(last'.resp) = "Unauthorized" /\ NothingWrittenOrReturned)
          /\ ForeignCaller(last'.op, last'.arg) =>
                 (ErrorKind(last'.resp) = "Forbidden" /\ NothingWrittenOrReturned)]_vars

\* C15 as amended: a request without a session is rejected as unauthorized;
\* a request of a caller that is neither the admin nor the target company
\* is rejected as Forbidden when it carries every required field and as
\* InvalidArgument when it does not; in each case no row is written, no
\* file is uploaded and no registration data is returned.
C15_ForeignCallerIsRejected ==
    [][(last'.op \in AuthOps) =>
          /\ ~last'.arg.session.present =>
                 (ErrorKind(last'.resp) = "Unauthorized" /\ NothingWrittenOrReturned)
          /\ ForeignCaller(last'.op, last'.arg) =>
                 /\ ErrorKind(last'.resp) =
                        IF WellFormed(last'.op, last'.arg)
                        THEN "Forbidden" ELSE "InvalidArgument"
                 /\ NothingWrittenOrReturned]_vars

\* A caller of company Bc asked for the registrations of an event of Ac
\* that has a registrant, and was refused.
C15_Witness ==
    /\ last.op = "listRegistrations"
    /\ ForeignCaller(last.op, last.arg)
    /\ Kind = "Forbidden"
    /\ registered # <<>>

---------------------------------------------------------------------------
(* The legacy specification: company Ac holds the table La, created before *)
(* the EventStatus column existed; its first data row is a settings row,   *)
(* a settings row without a date, or already a registration.               *)

\* The header of an event table without the EventStatus column.
LegacyHeaders == slice(EventHeaders, 0, Len(EventHeaders) - 1)

LegacyFirstRows ==
    {settingsRowOf(LegacyHeaders, <<>>, Description, EventDay),
     TrimRow(settingsRowOf(LegacyHeaders, ImageUrl, <<>>, <<>>)),
     TrimRow(registrantRow(RegisterRequest(Ac, La, Phone2, Email2), EventDay))}

LegacySheets ==
    {<< <<La>>, LegacyHeaders, first >> : first \in LegacyFirstRows}

InitLegacy ==
    /\ sheets \in {(COMPANIES :> <<CompaniesHeader,
                                   <<companyId(1), Ac, U1, hash(Pw), <<>>, Enabled>> >>)
                   @@ (Ac :> legacy) : legacy \in LegacySheets}
    /\ files = 0
    /\ clock = 2
    /\ last = NoRequest
    /\ registered = <<>>
    /\ toggled = <<>>
    /\ inflight = <<>>
    /\ sessions = {}

LegacySetEventStatusRequests ==
    {[session |-> AdminSession, company |-> Ac, event |-> e, status |-> st] :
        e \in {La, la}, st \in {Enabled, Disabled}}

NextLegacy ==
    \/ \E req \in LegacySetEventStatusRequests : SetEventStatus(req)
    \/ \E req \in AuthRegisterRequests : Register(req)
    \/ CreateEvent(EventRequest(la, <<>>))
    \/ ListEvents(Ac)

SpecLegacy == InitLegacy /\ [][NextLegacy]_vars

---------------------------------------------------------------------------
(* C16 *)

\* listEvents reports the status for the event.
EventListedWithStatus(db, companyName, eventName, status) ==
    LET r == listEvents(db, companyName)
    IN  /\ r.resp.status = 200
        /\ \E k \in 1..Len(r.events) :
               r.events[k].id = eventName /\ r.events[k].status = status

\* The table of the request has a header row without EventStatus and a
\* first data row after it.
LegacyTableWithFirstRow(data, event) ==
    LET eventIndex == eventIndexOf(data, event)
    IN  /\ eventIndex # -1
        /\ eventIndex + 2 < Len(data)
        /\ Len(data[eventIndex + 2]) > 1
        /\ indexOf(data[eventIndex + 2], H_EventStatus) = -1
        /\ Len(data[eventIndex + 3]) # 1

\* C16: setEventStatus on a table whose header lacks EventStatus leaves the
\* header as the old header followed by EventStatus and stores the status in
\* the first data row at the column of the new EventStatus header, whatever
\* the stored length of that row, so that listEvents reports the status.
C16_StatusLandsUnderNewHeader ==
    [][(/\ last'.op = "setEventStatus"
        /\ last'.resp.status = 200
        /\ LegacyTableWithFirstRow(getSheetData(sheets, last'.arg.company),
                                   last'.arg.event))
       => LET old == getSheetData(sheets, last'.arg.company)
              new == getSheetData(sheets', last'.arg.company)
              eventIndex == eventIndexOf(old, last'.arg.event)
              headersRow == old[eventIndex + 2]
          IN  /\ Len(new) = Len(old)
              /\ new[eventIndex + 2] = Append(headersRow, H_EventStatus)
              /\ Cell(new[eventIndex + 3], Len(headersRow)) = last'.arg.status
              /\ EventListedWithStatus(sheets', last'.arg.company,
                                       last'.arg.event, last'.arg.status)]_vars

---------------------------------------------------------------------------
(* The filter specification: the two row tests applied to every header and *)
(* row over a bounded set of cells.                                        *)

MaxHeaderLen == 3
MaxRowLen == 4

SeqsUpTo(S, n) == UNION {[1..k -> S] : k \in 0..n}

SettingsNames == {H_Image, H_EventDescription, H_EventDate, H_EventStatus}

FilterHeaders == SeqsUpTo(SettingsNames \cup {H_Name}, MaxHeaderLen)

FilterRows == SeqsUpTo({<<>>, Sam}, MaxRowLen)

InitFilter ==
    /\ sheets = <<>>
    /\ files = 0
    /\ clock = 1
    /\ \E headers \in FilterHeaders, row \in FilterRows :
           last = Last("", [headers |-> headers, row |-> row], OK, FALSE,
                       FALSE, FALSE)
    /\ registered = <<>>
    /\ toggled = <<>>
    /\ inflight = <<>>
    /\ sessions = {}

\* The row test of GET /api/events on the header and row drawn.
CountFilter ==
    /\ last.op = ""
    /\ last' = [last EXCEPT
                   !.op = "registrationCount",
                   !.body = isSettingsRowOfCount(last.arg.row,
                                indexOf(last.arg.headers, H_Image),
                                indexOf(last.arg.headers, H_EventDescription),
                                indexOf(last.arg.headers, H_EventDate),
                                indexOf(last.arg.headers, H_EventStatus))]
    /\ UNCHANGED <<inflight, sessions, sheets, files, clock, registered, toggled>>

\* The row test of GET /api/events/registrations on the header and row drawn.
ListFilter ==
    /\ last.op = ""
    /\ last' = [last EXCEPT
                   !.op = "registrations",
                   !.body = isSettingsRowOfList(last.arg.row,
                                indexOf(last.arg.headers, H_Image),
                                indexOf(last.arg.headers, H_EventDescription),
                                indexOf(last.arg.headers, H_EventDate),
                                indexOf(last.arg.headers, H_EventStatus))]
    /\ UNCHANGED <<inflight, sessions, sheets, files, clock, registered, toggled>>

NextFilter == CountFilter \/ ListFilter

SpecFilter == InitFilter /\ [][NextFilter]_vars

---------------------------------------------------------------------------
(* C17 *)

\* Every non-empty cell of the row lies in a column whose header is Image,
\* EventDescription, EventDate or EventStatus.
OnlySettingsCells(headers, row) ==
    \A index \in 0..(Len(row) - 1) :
        row[index + 1] # <<>> =>
            (index < Len(headers) /\ headers[index + 1] \in SettingsNames)

\* No settings column name heads two columns.
SettingsNamesOnce(headers) ==
    \A i, j \in 1..Len(headers) :
        (i # j /\ headers[i] = headers[j]) => headers[i] \notin SettingsNames

\* Both row tests, evaluated on the header and row of the state.
BothFiltersSay(verdict) ==
    LET headers == last.arg.headers
        row == last.arg.row
        imageIndex == indexOf(headers, H_Image)
        descriptionIndex == indexOf(headers, H_EventDescription)
        dateIndex == indexOf(headers, H_EventDate)
        statusIndex == indexOf(headers, H_EventStatus)
    IN  /\ isSettingsRowOfCount(row, imageIndex, descriptionIndex, dateIndex,
                                statusIndex) = verdict
        /\ isSettingsRowOfList(row, imageIndex, descriptionIndex, dateIndex,
                               statusIndex) = verdict
        /\ last.body = verdict

---------------------------------------------------------------------------
(* C18 *)

\* The number of successful register calls for the table of a company.
registeredFor(companyName, eventName) ==
    Cardinality({i \in DOMAIN registered :
                    /\ registered[i].company = companyName
                    /\ registered[i].exact = eventName})

\* C18: in every reachable state listEvents reports, for each event of an
\* enabled company, as many registrations as there were successful register
\* calls for that event, whether or not its table is the last of the sheet.
C18_CountEqualsSuccessfulRegistrations ==
    LET r == listEvents(sheets, Ac)
    IN  r.resp.status = 200 =>
            \A k \in 1..Len(r.events) :
                r.events[k].registrations = registeredFor(Ac, r.events[k].id)

---------------------------------------------------------------------------
(* C19 *)

\* The row carries the submitted person under the registrant columns and
\* nothing under the four settings columns.
CarriesSubmitted(row, req) ==
    /\ Cell(row, indexOf(EventHeaders, H_Name)) = req.name
    /\ Cell(row, indexOf(EventHeaders, H_Phone)) = req.phone
    /\ Cell(row, indexOf(EventHeaders, H_Email)) = req.email
    /\ Cell(row, indexOf(EventHeaders, H_Gender)) = req.gender
    /\ Cell(row, indexOf(EventHeaders, H_College)) = req.college
    /\ Cell(row, indexOf(EventHeaders, H_Status)) = req.status
    /\ Cell(row, indexOf(EventHeaders, H_NationalID)) = req.nationalId
    /\ \A h \in SettingsNames : Cell(row, indexOf(EventHeaders, h)) = <<>>

\* What listEvents reports of the settings of each event.
reportedSettings(db, companyName) ==
    LET r == listEvents(db, companyName)
    IN  [k \in 1..Len(r.events) |->
            <<r.events[k].id, r.events[k].image, r.events[k].description,
              r.events[k].date, r.events[k].status>>]

\* C19: a successful register adds exactly one row to the sheet, carrying
\* the submitted Name, Phone, Email, Gender, College, Status and National ID
\* and empty Image, EventDescription, EventDate and EventStatus cells; no
\* register call changes the image, description, date or status that
\* listEvents reports for any event.
C19_RegisterAppendsSubmittedRow ==
    [][(last'.op = "register") =>
          /\ reportedSettings(sheets', Ac) = reportedSettings(sheets, Ac)
          /\ last'.resp.status = 200 =>
                 LET old == getSheetData(sheets, Ac)
                     new == getSheetData(sheets', Ac)
                 IN  /\ Len(new) = Len(old) + 1
                     /\ SubSeq(new, 1, Len(old)) = old
                     /\ CarriesSubmitted(new[Len(new)], last'.arg)]_vars

---------------------------------------------------------------------------
(* The faulty-store specification: one write of a request may fail.  A     *)
(* failed service call throws, the handler answers 500, and the writes     *)
(* made before it stay.                                                    *)

\* createEvent whose failAt-th write fails: 1 the marker row, 2 the header
\* row, 3 the settings row.  reached says whether the handler got as far as
\* its writes.
createEventFailing(db, fs, session, companyName, eventName, eventDescription, eventDate, image, failAt) ==
    LET whole == createEvent(db, fs, session, companyName, eventName,
                             eventDescription, eventDate, image)
        created == createTable(db, companyName, eventName, EventHeaders)
    IN  [reached |-> whole.resp.status \in {200, 500} /\ created.ok,
         resp |-> Response(500, "Failed to create event"),
         db |-> CASE failAt = 1 -> db
                  [] failAt = 2 -> appendToSheet(db, companyName,
                                                 <<<<eventName>>>>)
                  [] OTHER -> created.db,
         files |-> whole.files]

\* setEventStatus whose failAt-th write fails: with a header without
\* EventStatus 1 is the header row and 2 the first data row; otherwise 1 is
\* the first data row.
setEventStatusFailing(db, session, company, event, status, failAt) ==
    LET whole == setEventStatus(db, session, company, event, status)
        data == getSheetData(db, company)
        eventIndex == eventIndexOf(data, event)
        headersRow == data[eventIndex + 2]
    IN  IF whole.resp.status # 200 \/ whole.db = db
        THEN [reached |-> FALSE, resp |-> whole.resp, db |-> db]
        ELSE IF failAt = 1
        THEN [reached |-> TRUE, resp |-> Response(500, "Failed to update event"),
              db |-> db]
        ELSE [reached |-> /\ indexOf(headersRow, H_EventStatus) = -1
                          /\ eventIndex + 2 < Len(data),
              resp |-> Response(500, "Failed to update event"),
              db |-> updateRow(db, company, eventIndex + 1,
                               Append(headersRow, H_EventStatus))]

CreateEventFails(req, failAt) ==
    \E r \in {createEventFailing(sheets, files, req.session, req.companyName,
                                 req.eventName, req.eventDescription,
                                 req.eventDate, req.image, failAt)} :
        /\ r.reached
        /\ Bounded(r.db, r.files)
        /\ sheets' = r.db
        /\ files' = r.files
        /\ last' = Last("createEvent", req, r.resp, TRUE, r.db # sheets, <<>>)
        /\ UNCHANGED <<inflight, sessions, clock, registered, toggled>>

SetEventStatusFails(req, failAt) ==
    \E r \in {setEventStatusFailing(sheets, req.session, req.company,
                                    req.event, req.status, failAt)} :
        /\ r.reached
        /\ sheets' = r.db
        /\ last' = Last("setEventStatus", req, r.resp, TRUE, r.db # sheets, <<>>)
        /\ UNCHANGED <<inflight, sessions, files, clock, registered, toggled>>

\* register whose append fails: the catch around the table calls answers 404.
RegisterFails(req) ==
    \E registrationDate \in Timestamps :
    \E r \in {register(sheets, req, registrationDate)} :
        /\ r.resp.status = 200
        /\ last' = Last("register", req,
                        Response(404, "Event not found"),
                        TRUE, FALSE, <<>>)
        /\ UNCHANGED <<inflight, sessions, sheets, files, clock, registered, toggled>>

NextFaulty ==
    \/ \E req \in StatusCreateEventRequests : CreateEvent(req)
    \/ \E req \in StatusCreateEventRequests, failAt \in 1..3 :
           CreateEventFails(req, failAt)
    \/ \E req \in LegacySetEventStatusRequests : SetEventStatus(req)
    \/ \E req \in LegacySetEventStatusRequests, failAt \in 1..2 :
           SetEventStatusFails(req, failAt)
    \/ Register(BaseRequest)
    \/ RegisterFails(BaseRequest)

SpecFaulty == Init /\ [][NextFaulty]_vars

---------------------------------------------------------------------------
(* C20 *)

\* The rows of the sheet that the step changed (1-based).
changedRows(old, new) ==
    {i \in 1..Len(new) : i > Len(old) \/ new[i] # old[i]}

\* The header row and the first data row of the table at marker eventIndex:
\* the first two rows after the marker, up to the next one-cell row.
ownHeaderAndFirstRow(data, eventIndex) ==
    {i \in {eventIndex + 2, eventIndex + 3} :
        /\ i <= Len(data)
        /\ \A j \in (eventIndex + 2)..i : Len(data[j]) # 1}

\* C20: whichever single write of a createEvent, register or setEventStatus
\* call fails, every marker row keeps exactly one populated cell, and
\* setEventStatus writes only to the header row and the first data row of
\* its own table, never to the marker row of another table, also when its
\* table has no row after the header, or no header, after a createEvent
\* that failed part-way.
C20_MarkerRowsStayIntact ==
    [][LET old == getSheetData(sheets, Ac)
           new == getSheetData(sheets', Ac)
       IN  /\ \A i \in 1..Len(old) : Len(old[i]) = 1 => new[i] = old[i]
           /\ last'.op = "setEventStatus" =>
                  changedRows(old, new) \subseteq
                      ownHeaderAndFirstRow(old, eventIndexOf(old, last'.arg.event))]_vars

---------------------------------------------------------------------------
(* Concurrent requests.  The server handles requests concurrently: each    *)
(* await of a store call is a point where another request may run.  A      *)
(* request in progress is a record of inflight, [op, req, pc, ...]; pc     *)
(* names the store call it makes next.                                     *)

Procs == {1, 2}

Call(p) == IF p \in DOMAIN inflight THEN inflight[p] ELSE <<>>

\* The answer of a step that does not end its request.
Pending == Response(0, "")

\* A write of the row at the row index the caller computed from its own read.
writeAtRange(db, sheetName, endIndex, rowData) ==
    [db EXCEPT ![sheetName] = updateValues(@, endIndex, rowData)]

\* values.append with range A{endIndex + 1}: the range only tells the service
\* where to look for the rows; the row goes after the last of them.
appendAtRange(db, sheetName, endIndex, rowData) ==
    [db EXCEPT ![sheetName] = appendValues(@, <<rowData>>)]

\* One store round-trip of POST /api/events/register, from the call record
\* c: "sheet" getSheetData(companyName), "companies" getSheetData('companies'),
\* "events" the fetch of /api/events, "table" getTableData with the status
\* and duplicate checks, "add" the read of addToTable, "append" its
\* values.append.  [resp, call, db]: the answer, or Pending with the call
\* record for the next step, and the spreadsheet after the step.
registerStep(db, c, registrationDate) ==
    LET req == c.req
        companyName == decodedField(req, "companyName").value
        eventId == decodedField(req, "eventName").value
        Answer(status, error) ==
            [resp |-> Response(status, error), call |-> c, db |-> db]
        Goto(pc) == [resp |-> Pending, call |-> [c EXCEPT !.pc = pc], db |-> db]
    IN
    CASE c.pc = "sheet" ->
            IF ~SheetExists(db, companyName) \/ getSheetData(db, companyName) = <<>>
            THEN Answer(404, "Company not found")
            ELSE Goto("companies")
      [] c.pc = "companies" ->
            IF ~SheetExists(db, COMPANIES)
            THEN Answer(404, "Company not found")
            ELSE LET company == findCompanyNormalized(db, companyName)
                 IN  IF company = <<>>
                     THEN Answer(404, "Company not found")
                     ELSE IF companyStatusOf(company) = Disabled
                     THEN Answer(403, "Company is disabled, registration is not available")
                     ELSE Goto("events")
      [] c.pc = "events" ->
            LET eventsData == listEvents(db, companyName)
                exactEventName == matchingEventOf(eventsData.events, eventId)
            IN  IF eventsData.resp.status # 200 \/ eventsData.events = <<>>
                THEN Answer(404, "No events found for this company")
                ELSE IF exactEventName = <<>>
                THEN Answer(404, "Event not found for this company")
                ELSE [resp |-> Pending, db |-> db,
                      call |-> [c EXCEPT !.pc = "table", !.exact = exactEventName]]
      [] c.pc = "table" ->
            LET table == getTableData(db, companyName, c.exact)
                tableData == table.rows
                headers == tableData[1]
                statusIndex == indexOf(headers, H_EventStatus)
                registrationData == slice(tableData, 1, Len(tableData))
            IN  IF ~table.ok \/ tableData = <<>>
                THEN Answer(404, "Event not found")
                ELSE IF /\ statusIndex # -1
                        /\ Len(tableData) > 1
                        /\ Cell(tableData[2], statusIndex) = Disabled
                THEN Answer(403, "Event registration is currently disabled")
                ELSE IF \E i \in 1..Len(registrationData) :
                            \/ Cell(registrationData[i], 2) = Field(req, "email")
                            \/ Cell(registrationData[i], 1) = Field(req, "phone")
                THEN Answer(400, "You are already registered for this event")
                ELSE [resp |-> Pending, db |-> db,
                      call |-> [c EXCEPT !.pc = "add",
                                         !.seen = Len(getSheetData(db, companyName))]]
      [] c.pc = "add" ->
            IF \/ ~SheetExists(db, companyName)
               \/ getSheetData(db, companyName) = <<>>
               \/ tableStartIndex(getSheetData(db, companyName), c.exact) = -1
            THEN Answer(404, "Event not found")
            ELSE LET data == getSheetData(db, companyName)
                 IN  [resp |-> Pending, db |-> db,
                      call |-> [c EXCEPT
                                   !.pc = "append",
                                   !.end = tableEndIndex(data,
                                               tableStartIndex(data, c.exact))]]
      [] OTHER ->
            [resp |-> OK, call |-> c,
             db |-> appendAtRange(db, companyName, c.end,
                                  registrantRow(req, registrationDate))]

\* A register request arrives: the body is validated before the first store
\* call; a valid one is left in progress at its first store call.
RegisterBegin(p, req) ==
    \E r \in {register(sheets, req, CHOOSE d \in Timestamps : TRUE)} :
        /\ Call(p) = <<>>
        /\ IF r.touched
           THEN /\ inflight' = (p :> [op |-> "register", req |-> req, pc |-> "sheet",
                                      exact |-> <<>>, seen |-> 0, end |-> 0]) @@ inflight
                /\ last' = Last("register", req, Pending, FALSE, FALSE, <<>>)
           ELSE /\ inflight' = inflight
                /\ last' = Last("register", req, r.resp, FALSE, FALSE, <<>>)
        /\ UNCHANGED <<sheets, files, clock, registered, toggled, sessions>>

\* The next store round-trip of the register request of p.
RegisterStep(p) ==
    \E registrationDate \in Timestamps :
    \E r \in {IF Call(p) # <<>> /\ Call(p).op = "register"
              THEN registerStep(sheets, Call(p), registrationDate)
              ELSE [resp |-> Pending, call |-> <<>>, db |-> sheets]} :
        /\ Call(p) # <<>> /\ Call(p).op = "register"
        /\ Bounded(r.db, files)
        /\ sheets' = r.db
        /\ inflight' = IF r.resp = Pending
                       THEN [inflight EXCEPT ![p] = r.call]
                       ELSE [q \in DOMAIN inflight \ {p} |-> inflight[q]]
        /\ last' = Last("register", Call(p).req, r.resp, TRUE, r.db # sheets, <<>>)
        /\ registered' =
               IF r.resp.status = 200
               THEN Append(registered,
                        [company |-> decodedField(Call(p).req, "companyName").value,
                         eventId |-> decodedField(Call(p).req, "eventName").value,
                         exact |-> Call(p).exact,
                         row |-> registrantRow(Call(p).req, registrationDate),
                         email |-> Call(p).req.email,
                         phone |-> Call(p).req.phone,
                         overtaken |-> Len(getSheetData(sheets, Ac)) > Call(p).seen])
               ELSE registered
        /\ UNCHANGED <<files, clock, toggled, sessions>>

\* The state after the admin has created company Ac and its event La.
InitEvent ==
    /\ sheets = createEvent((COMPANIES :> <<CompaniesHeader,
                                <<companyId(1), Ac, U1, hash(Pw), <<>>, Enabled>> >>)
                            @@ (Ac :> <<>>),
                            0, AdminSession, Ac, La, Description, EventDay, <<>>).db
    /\ files = 0
    /\ clock = 2
    /\ last = NoRequest
    /\ registered = <<>>
    /\ toggled = <<>>
    /\ inflight = <<>>
    /\ sessions = {}

\* Two people; each may send the form twice.
ConcurrentRegisterRequests ==
    {RegisterRequest(Ac, La, Phone1, Email1), RegisterRequest(Ac, La, Phone2, Email2)}

NextRegisters ==
    \/ \E p \in Procs, req \in ConcurrentRegisterRequests :
           Len(registered) < MaxRegistered /\ RegisterBegin(p, req)
    \/ \E p \in Procs : RegisterStep(p)

SpecRegisters == InitEvent /\ [][NextRegisters]_vars

---------------------------------------------------------------------------
(* C21 *)

\* The row as the service stores it.
storedRow(row) == TrimRow(userEnteredRow(row))

\* The sheet only grew: every row it had is still there, unchanged.
OnlyGrew(old, new) ==
    Len(new) >= Len(old) /\ SubSeq(new, 1, Len(old)) = old

\* C21: when two register calls for the same event with different e-mails
\* and different phones run concurrently and both report success, both
\* registrant rows are in the sheet afterwards; neither overwrote the other
\* or a row that was there before.
C21_ConcurrentRegistrationsBothKept ==
    [][/\ OnlyGrew(getSheetData(sheets, Ac), getSheetData(sheets', Ac))
       /\ \A i, j \in DOMAIN registered' :
              (/\ i # j
               /\ registered'[i].email # registered'[j].email
               /\ registered'[i].phone # registered'[j].phone)
              => \E m, n \in 1..Len(getSheetData(sheets', Ac)) :
                     /\ m # n
                     /\ getSheetData(sheets', Ac)[m] = storedRow(registered'[i].row)
                     /\ getSheetData(sheets', Ac)[n] = storedRow(registered'[j].row)]_vars

\* Two people registered for La and the second append landed after the
\* first call's append, which came after the second call's duplicate check.
C21_Witness ==
    /\ Len(registered) = 2
    /\ registered[1].email # registered[2].email
    /\ registered[1].phone # registered[2].phone
    /\ registered[2].overtaken
    /\ inflight = <<>>

---------------------------------------------------------------------------
(* C30 *)

\* C30: in every reachable state, however concurrent register calls
\* interleave, no event table holds two registrant rows with the same
\* e-mail or two registrant rows with the same phone.
C30_NoDuplicateRegistrant ==
    \A e \in {La} :
        LET table == getTableData(sheets, Ac, e)
        IN  table.ok =>
                \A i, j \in 2..Len(table.rows) :
                    i # j =>
                        /\ Cell(table.rows[i], 2) # <<>> =>
                               Cell(table.rows[i], 2) # Cell(table.rows[j], 2)
                        /\ Cell(table.rows[i], 1) # <<>> =>
                               Cell(table.rows[i], 1) # Cell(table.rows[j], 1)

---------------------------------------------------------------------------
(* Concurrent createEvent requests.                                        *)

\* One store round-trip of POST /api/events after its checks: "exists" the
\* read and existence test of createTable, "marker" and "header" its two
\* appends, "add" the read of addToTable, "settings" its values.append.
createEventStep(db, c) ==
    LET req == c.req
        data == getSheetData(db, req.companyName)
        Answer(status, error) ==
            [resp |-> Response(status, error), call |-> c, db |-> db]
        Goto(pc, db1) ==
            [resp |-> Pending, call |-> [c EXCEPT !.pc = pc], db |-> db1]
    IN
    CASE c.pc = "exists" ->
            IF \/ ~SheetExists(db, req.companyName)
               \/ \E i \in 1..Len(data) :
                      Len(data[i]) > 0 /\ data[i][1] = req.eventName
            THEN Answer(500, "Failed to create event")
            ELSE Goto("marker", db)
      [] c.pc = "marker" ->
            Goto("header", appendToSheet(db, req.companyName, <<<<req.eventName>>>>))
      [] c.pc = "header" ->
            Goto("add", appendToSheet(db, req.companyName, <<EventHeaders>>))
      [] c.pc = "add" ->
            IF data = <<>> \/ tableStartIndex(data, req.eventName) = -1
            THEN Answer(500, "Failed to create event")
            ELSE [resp |-> Pending, db |-> db,
                  call |-> [c EXCEPT
                               !.pc = "settings",
                               !.end = tableEndIndex(data,
                                           tableStartIndex(data, req.eventName))]]
      [] OTHER ->
            [resp |-> OK, call |-> c,
             db |-> appendAtRange(db, req.companyName, c.end,
                        settingsRowOf(EventHeaders, <<>>, req.eventDescription,
                                      req.eventDate))]

\* A createEvent request without an image arrives: session and body are
\* checked before the first store call.
CreateEventBegin(p, req) ==
    \E r \in {createEvent(sheets, files, req.session, req.companyName,
                          req.eventName, req.eventDescription, req.eventDate,
                          req.image)} :
        /\ Call(p) = <<>>
        /\ req.image = <<>>
        /\ IF r.resp.status \in {200, 500}
           THEN /\ inflight' = (p :> [op |-> "createEvent", req |-> req,
                                      pc |-> "exists", exact |-> <<>>,
                                      seen |-> 0, end |-> 0]) @@ inflight
                /\ last' = Last("createEvent", req, Pending, FALSE, FALSE, <<>>)
           ELSE /\ inflight' = inflight
                /\ last' = Last("createEvent", req, r.resp, FALSE, FALSE, <<>>)
        /\ UNCHANGED <<sheets, files, clock, registered, toggled, sessions>>

\* The next store round-trip of the createEvent request of p.
CreateEventStep(p) ==
    \E r \in {IF Call(p) # <<>> /\ Call(p).op = "createEvent"
              THEN createEventStep(sheets, Call(p))
              ELSE [resp |-> Pending, call |-> <<>>, db |-> sheets]} :
        /\ Call(p) # <<>> /\ Call(p).op = "createEvent"
        /\ Bounded(r.db, files)
        /\ sheets' = r.db
        /\ inflight' = IF r.resp = Pending
                       THEN [inflight EXCEPT ![p] = r.call]
                       ELSE [q \in DOMAIN inflight \ {p} |-> inflight[q]]
        /\ last' = Last("createEvent", Call(p).req, r.resp, TRUE, r.db # sheets, <<>>)
        /\ UNCHANGED <<files, clock, registered, toggled, sessions>>

ConcurrentEventNames == {La, la, Sam}

ConcurrentCreateEventRequests ==
    {[EventRequest(e, <<>>) EXCEPT !.eventDescription = e] :
        e \in ConcurrentEventNames}

NextCreates ==
    \/ \E p \in Procs, req \in ConcurrentCreateEventRequests :
           CreateEventBegin(p, req)
    \/ \E p \in Procs : CreateEventStep(p)

SpecCreates == Init /\ [][NextCreates]_vars

---------------------------------------------------------------------------
(* C22 *)

\* The key under which two table names count as the same name.
nameKey(name) == toLowerCase(trim(name))

\* The settings rows of the sheet: the last write of a createEvent call that
\* answers success.  Each request of the specification gives its event name
\* as the description.
settingsRowsOf(data) ==
    {i \in 1..Len(data) :
        /\ Cell(data[i], indexOf(EventHeaders, H_EventStatus)) = Enabled
        /\ Cell(data[i], indexOf(EventHeaders, H_Name)) = <<>>}

\* C22: however two createEvent calls on the same company sheet whose names
\* are equal, or equal after trimming and lower-casing, interleave, at most
\* one of them succeeds and the sheet ends with at most one marker row for
\* that name.
C22_OneTablePerName ==
    LET data == getSheetData(sheets, Ac)
    IN  /\ \A i, j \in 1..Len(data) :
               (/\ i # j /\ Len(data[i]) = 1 /\ Len(data[j]) = 1)
               => nameKey(data[i][1]) # nameKey(data[j][1])
        /\ \A i, j \in settingsRowsOf(data) :
               i # j =>
                   nameKey(Cell(data[i], indexOf(EventHeaders, H_EventDescription)))
                   # nameKey(Cell(data[j], indexOf(EventHeaders, H_EventDescription)))

---------------------------------------------------------------------------
(* C29 *)

\* The names whose createEvent call answered success: those of the
\* settings rows.
createdNames(data) ==
    {Cell(data[i], indexOf(EventHeaders, H_EventDescription)) :
        i \in settingsRowsOf(data)}

\* The table of the name is its marker row, then the header row, then its
\* own settings row.
WellFormedTable(data, name) ==
    \E i \in 1..Len(data) :
        /\ data[i] = <<name>>
        /\ i + 2 <= Len(data)
        /\ data[i + 1] = EventHeaders
        /\ data[i + 2] = TrimRow(settingsRowOf(EventHeaders, <<>>, name, EventDay))

\* C29: when two createEvent calls with different event names for the same
\* company run concurrently and both report success, the table of each
\* event is its marker row, immediately followed by its header row and then
\* by its own settings row with its own description and date.
C29_ConcurrentEventsWellFormed ==
    LET data == getSheetData(sheets, Ac)
    IN  (/\ inflight = <<>>
         /\ createdNames(data) = {La, Sam}
         /\ Len(data) = 6)
        => WellFormedTable(data, La) /\ WellFormedTable(data, Sam)

---------------------------------------------------------------------------
(* Login (lib/auth.ts and the login page).                                 *)

\* authorize for type 'company': the first directory row with the username;
\* a disabled one throws CompanyDisabled, then bcrypt.compare; null, also
\* after a failed read of the directory, becomes the error CredentialsSignin
\* of signIn.  The session carries the id and
\* the name of the row.
authorize(db, credentials) ==
    LET companyData == IF SheetExists(db, COMPANIES) THEN directoryRows(db)
                       ELSE <<>>
        S == {i \in 1..Len(companyData) :
                 Cell(companyData[i], 2) = credentials.username}
        company == IF S = {} THEN <<>> ELSE companyData[Min(S)]
    IN  IF credentials.username = <<>> \/ credentials.password = <<>>
        THEN [error |-> "CredentialsSignin", user |-> NoSession]
        ELSE IF company = <<>>
        THEN [error |-> "CredentialsSignin", user |-> NoSession]
        ELSE IF companyStatusOf(company) = Disabled
        THEN [error |-> "CompanyDisabled", user |-> NoSession]
        ELSE IF hash(credentials.password) # Cell(company, 3)
        THEN [error |-> "CredentialsSignin", user |-> NoSession]
        ELSE [error |-> "",
              user |-> [present |-> TRUE, type |-> "company",
                        id |-> Cell(company, 0), name |-> Cell(company, 1)]]

\* What the login page shows for the result of signIn.
loginMessage(error) ==
    IF error = "" THEN ""
    ELSE IF error = "CompanyDisabled" THEN "This company account has been disabled"
    ELSE "Invalid username or password"

\* handleSubmit of the login page with type 'company'.
Login(credentials) ==
    \E r \in {authorize(sheets, credentials)} :
        /\ sessions' = IF r.error = "" THEN sessions \cup {r.user} ELSE sessions
        /\ last' = Last("login", credentials,
                        IF r.error = "" THEN OK ELSE Response(401, r.error),
                        TRUE, FALSE, loginMessage(r.error))
        /\ UNCHANGED <<sheets, files, clock, registered, toggled, inflight>>

WrongPw == <<"x">>

LoginCredentials ==
    {[username |-> u, password |-> pw] :
        u \in {U1, U2, userEntered(U2)}, pw \in {Pw, WrongPw}}

LoginCreateCompanyRequests ==
    {[session |-> AdminSession, name |-> n, username |-> u, password |-> Pw,
      image |-> <<>>] : n \in {Ac, Bc}, u \in {U1, U2}}

LoginUpdateRequests ==
    {[NoUpdate(id) EXCEPT !.status = st] :
        id \in CompanyIds, st \in {Enabled, Disabled}}

NextLogin ==
    \/ \E req \in LoginCreateCompanyRequests : CreateCompany(req)
    \/ \E req \in LoginUpdateRequests : UpdateCompany(req)
    \/ \E credentials \in LoginCredentials : Login(credentials)

SpecLogin == InitDir /\ [][NextLogin]_vars

---------------------------------------------------------------------------
(* C23 *)

\* A directory row with the username has status disabled.
DisabledRowOf(db, username) ==
    /\ SheetExists(db, COMPANIES)
    /\ \E i \in 1..Len(directoryRows(db)) :
           /\ Cell(directoryRows(db)[i], 2) = username
           /\ companyStatusOf(directoryRows(db)[i]) = Disabled

\* C23: a company login with a username whose directory row has status
\* disabled yields no session: authorize raises CompanyDisabled whether the
\* password is right or wrong, and the login page reports the account as
\* disabled, not the credentials as invalid.
C23_DisabledCompanyCannotLogIn ==
    [][(last'.op = "login" /\ DisabledRowOf(sheets, last'.arg.username))
       => /\ sessions' = sessions
          /\ last'.resp.error = "CompanyDisabled"
          /\ last'.body = loginMessage("CompanyDisabled")]_vars

---------------------------------------------------------------------------
(* C24 *)

\* The sheet has a marker row whose name is exactly the name.
HasTableNamed(data, name) ==
    \E i \in 1..Len(data) : data[i] = <<name>>

\* A row of the table carries the e-mail or the phone.
HoldsPerson(rows, email, phone) ==
    \E i \in 2..Len(rows) : Cell(rows[i], 2) = email \/ Cell(rows[i], 1) = phone

\* C24: if the company's sheet has a table named exactly as the eventId
\* given to register, the registrant row is recorded in that table and the
\* duplicate check reads that table, also when an earlier table of the
\* sheet has a name that differs from eventId only in letter case or
\* surrounding whitespace.
C24_ExactTableIsUsed ==
    [][(/\ last'.op = "register"
        /\ last'.touched
        /\ SheetExists(sheets, Ac)
        /\ HasTableNamed(getSheetData(sheets, Ac), last'.arg.eventName))
       => LET eventId == last'.arg.eventName
              before == getTableData(sheets, Ac, eventId).rows
              after == getTableData(sheets', Ac, eventId).rows
          IN  /\ last'.resp.status = 200 =>
                     /\ registered'[Len(registered')].exact = eventId
                     /\ Len(after) = Len(before) + 1
                     /\ after[Len(after)] =
                            TrimRow(userEnteredRow(registered'[Len(registered')].row))
              /\ last'.resp.error = "You are already registered for this event"
                     => HoldsPerson(before, last'.arg.email, last'.arg.phone)]_vars

---------------------------------------------------------------------------
(* The error specification: register bodies with and without defects       *)
(* against events and a company that are enabled and disabled.             *)

NextErrors ==
    \/ CreateEvent(EventRequest(La, <<>>))
    \/ \E st \in {Enabled, Disabled} :
           SetEventStatus([session |-> AdminSession, company |-> Ac,
                           event |-> La, status |-> st])
    \/ \E req \in InputRegisterRequests \cup {RegisterRequest(Ac, La, Phone2, Email2)} :
           Register(req)
    \/ \E req \in StatusUpdateRequests : UpdateCompany(req)

SpecErrors == Init /\ [][NextErrors]_vars

---------------------------------------------------------------------------
(* C25 *)

\* C25: a register call that returns an error leaves every sheet as it
\* was: it appends, updates and deletes no row.
C25_FailedRegisterWritesNothing ==
    [][(last'.op = "register" /\ last'.resp.status # 200)
       => (sheets' = sheets /\ files' = files)]_vars

\* A person was turned away as already registered for an event that has a
\* registrant.
C25_Witness ==
    /\ last.op = "register"
    /\ last.resp.error = "You are already registered for this event"
    /\ registered # <<>>
    /\ Len(getSheetData(sheets, Ac)) > 3

---------------------------------------------------------------------------
(* C26 *)

\* C26: in every state reached by createCompany and updateCompany calls,
\* failed ones included, the name of each directory row is the title of an
\* existing sheet and no two directory rows have the same name: row and
\* sheet are created or renamed together or not at all.
C26_DirectoryMatchesSheets ==
    SheetExists(sheets, COMPANIES) =>
        LET rows == directoryRows(sheets)
        IN  /\ \A i \in 1..Len(rows) : SheetExists(sheets, Cell(rows[i], 1))
            /\ \A i, j \in 1..Len(rows) :
                   i # j => Cell(rows[i], 1) # Cell(rows[j], 1)

---------------------------------------------------------------------------
(* Company sessions: requests made with the sessions that Login issued,    *)
(* while the admin renames, disables and creates companies.                *)

SessionCreateCompanyRequests ==
    {[session |-> AdminSession, name |-> Ac, username |-> U2, password |-> Pw,
      image |-> <<>>]}

\* The admin renames company_1 or sets its status.
SessionUpdateRequests ==
    {[NoUpdate(companyId(1)) EXCEPT !.name = n] : n \in {Ac, Bc}}
    \cup {[NoUpdate(companyId(1)) EXCEPT !.status = st] :
            st \in {Enabled, Disabled}}

SessionCredentials == {[username |-> U1, password |-> Pw]}

NextSessions ==
    \/ \E credentials \in SessionCredentials : Login(credentials)
    \/ \E req \in SessionUpdateRequests : UpdateCompany(req)
    \/ \E req \in SessionCreateCompanyRequests : CreateCompany(req)
    \/ \E s \in sessions, n \in {Ac, Bc} :
           CreateEvent([EventRequest(La, <<>>) EXCEPT !.session = s,
                                                     !.companyName = n])
    \/ \E s \in sessions, n \in {Ac, Bc}, st \in {Enabled, Disabled} :
           SetEventStatus([session |-> s, company |-> n, event |-> La,
                           status |-> st])
    \/ \E s \in sessions, n \in {Ac, Bc} :
           ListRegistrations([session |-> s, companyName |-> n,
                              eventName |-> La])

SpecSessions == Init /\ [][NextSessions]_vars

\* The company named in a createEvent, setEventStatus or listRegistrations
\* request.
requestedCompany(request) ==
    IF request.op = "setEventStatus" THEN request.arg.company
    ELSE request.arg.companyName

SessionRequest(request) ==
    /\ request.op \in {"createEvent", "setEventStatus", "listRegistrations"}
    /\ request.arg.session.type = "company"

\* The directory rows of the company a session was issued to.
rowsOfSession(db, session) ==
    LET rows == directoryRows(db)
    IN  {rows[i] : i \in {k \in 1..Len(rows) : Cell(rows[k], 0) = session.id}}

---------------------------------------------------------------------------
(* C27 *)

\* C27: a createEvent, setEventStatus or listRegistrations request made with
\* a company session succeeds only on the sheet of the company the session
\* was issued to, also after that company was renamed and its former name
\* given to another company.
C27_SessionActsOnOwnSheetOnly ==
    [][(SessionRequest(last') /\ last'.resp.status = 200)
        => \E row \in rowsOfSession(sheets, last'.arg.session) :
               Cell(row, 1) = requestedCompany(last')]_vars

---------------------------------------------------------------------------
(* C28 *)

\* C28: while the company a session was issued to is disabled in the
\* directory, no createEvent, setEventStatus or listRegistrations request
\* made with that session succeeds, a session issued before the company was
\* disabled included.
C28_DisabledCompanySessionIsRefused ==
    [][(/\ SessionRequest(last')
        /\ \E row \in rowsOfSession(sheets, last'.arg.session) :
               companyStatusOf(row) = Disabled)
        => last'.resp.status # 200]_vars

====
